---- MODULE Spec2Model ----
(***************************************************************************)
(* A model of the TPU audit tooling:                                       *)
(*   wrap_master.py  the lock-and-cache wrapper around one audit pass      *)
(*   master.py       the audit pass (list, classify, dispatch, reconcile)  *)
(*   lock_util.py    the lease ("zhan") files of the reservation registry  *)
(*   delete_idle.py  the deletion of idle instances named in the output   *)
(*                                                                         *)
(* Text is modelled as a sequence of tokens (a token is a character or an  *)
(* indivisible word), so that formatting, splitting and parsing are        *)
(* computed and not assumed.  Times are whole seconds.                     *)
(***************************************************************************)
EXTENDS Integers, Sequences, FiniteSets, TLC

\* ------------------------------------------------------------------ bounds

\* Number of wrapper invocations (processes) that may run concurrently.
NumProcs == 2
\* Number of times the wall clock advances in a behaviour of the wrapper.
MaxTicks == 1
\* Tokens one write() call moves to the file (stands for the stream's buffer
\* size, io.DEFAULT_BUFFER_SIZE bytes).
BUFFER_SIZE == 4

\* Number of scans of the lease directory a process runs one after the other.
MaxScans == 2
\* Number of files the lease directory holds at a time.
MaxFiles == 2
\* Number of zones of ZONES the pass lists (the first ones).
NumZones == 2
\* Number of lines all listing calls of a pass return together.
MaxFleet == 2
\* Number of lines the remote command of a probe prints.
MaxOutLines == 2

\* Longest priority list handed to assign_prefix.
MaxPrefixes == 3

\* Most lines of audit output in the cache delete_idle.py reads.
MaxAuditLines == 2

\* ------------------------------------------------------- program constants

CACHE_DURATION == 300
LOCK_EXPIRE_SECONDS == 1800

\* ------------------------------------------------------------------- state

VARIABLES
    clock,          \* time.time(), in whole seconds
    ticks,          \* how often the clock has advanced
    \* ---- wrap_master.py: files shared by all invocations
    lockFileExists, \* LOCK_FILE exists
    lockHolder,     \* the invocation holding flock(LOCK_EX) on LOCK_FILE, 0 if none
    cacheExists,    \* CACHE_FILE exists
    cacheContent,   \* the text in CACHE_FILE
    \* ---- wrap_master.py: one invocation per process
    wmode,          \* args.cache: "true", "false" ("none" before the invocation)
    wpc,            \* position of the invocation in its code
    wnow,           \* run_with_cache_false: now
    woutput,        \* run_with_cache_false: output
    wrc,            \* run_with_cache_false: result.returncode
    wpending,       \* text handed to f.write() that has not reached the file yet
    wobserved,      \* _read_cache: content
    wprinted,       \* what the invocation wrote to sys.stdout
    wexit,          \* exit status of the invocation (-1 while it runs)
    wage,           \* run_with_cache_true: age (-1 unless a cached entry was used)
    \* ---- history (not program state)
    ranPass,        \* the invocation started a master.py pass of its own
    blockedOn,      \* the holder, running its pass, that the flock() call blocked behind
    committed,      \* the last text completely written to CACHE_FILE
    \* ---- the lease directory LOCK_DIR and the scans of it
    dir,            \* the file names in LOCK_DIR
    scans,          \* number of scans started so far
    purged,         \* history: the files a finished scan found expired
    spc,            \* position of the scan
    snow,           \* collect_recent_reservations: now, <<date, time>> of the time string
    sfiles,         \* collect_recent_reservations: files
    sidx,           \* collect_recent_reservations: number of files iterated over
    sres,           \* collect_recent_reservations: reservations
    \* ---- master.py: one audit pass
    apc,            \* position of run_audit_all
    listing,        \* what the listing call of each zone gave: [ok, lines], once made
    zone_results,   \* run_audit_all: zone_results, by zone, once returned
    all_tpus,       \* run_audit_all: all_tpus
    all_preempted,  \* run_audit_all: all_preempted
    all_tasks,      \* run_audit_all: all_tasks
    all_results,    \* run_audit_all: all_results, <<>> where the task is not done yet
    remote,         \* what the external call of each task did, once made
    delete_results, \* run_audit_all: delete_results
    check_results,  \* run_audit_all: check_results
    summary,        \* the lines the pass logged from "SUMMARY" on
    \* ---- master.py: one use of assign_prefix
    tprefixes,      \* assign_prefix: prefixes
    tname,          \* assign_prefix: name
    ttag,           \* what assign_prefix(name, prefixes) returned
    \* ---- delete_idle.py: one invocation
    dpc,            \* position of main()
    dargv,          \* sys.argv[1:]
    dtype,          \* main: tpu_type
    dout,           \* main: out, the captured stdout + stderr of wrap_master.py
    idle_list,      \* main: idle_list
    dconfirm,       \* main: confirm
    dresults,       \* main: results, one entry per delete command issued
    dexit           \* exit status of the invocation (-1 while it runs)

wrapVars == <<lockFileExists, lockHolder, cacheExists, cacheContent, wmode, wpc,
              wnow, woutput, wrc, wpending, wobserved, wprinted, wexit, wage,
              ranPass, blockedOn, committed>>

leaseVars == <<dir, scans, purged, spc, snow, sfiles, sidx, sres>>

auditVars == <<apc, listing, zone_results, all_tpus, all_preempted, all_tasks,
               all_results, remote, delete_results, check_results, summary>>

tagVars == <<tprefixes, tname, ttag>>

deleteVars == <<dpc, dargv, dtype, dout, idle_list, dconfirm, dresults, dexit>>

toolVars == <<tagVars, deleteVars>>

nonWrap == <<leaseVars, auditVars, toolVars>>

vars == <<clock, ticks, wrapVars, leaseVars, toolVars, auditVars, toolVars>>

Procs == 1..NumProcs

\* ------------------------------------------------------------ text helpers

NL == "\n"

DigitChar == <<"0", "1", "2", "3", "4", "5", "6", "7", "8", "9">>

IsDigit(c) == \E i \in 1..10 : DigitChar[i] = c

DigitVal(c) == (CHOOSE i \in 1..10 : DigitChar[i] = c) - 1

\* The decimal digits of a natural number.
RECURSIVE Digits(_)
Digits(n) == IF n < 10 THEN <<DigitChar[n + 1]>>
             ELSE Append(Digits(n \div 10), DigitChar[(n % 10) + 1])

\* The value of a sequence of decimal digits (0 for the empty sequence).
RECURSIVE DigitsVal(_)
DigitsVal(s) == IF s = <<>> THEN 0
                ELSE 10 * DigitsVal(SubSeq(s, 1, Len(s) - 1)) + DigitVal(s[Len(s)])

\* Index of the first occurrence of token c in s, 0 if there is none.
IndexOf(s, c) == IF \E i \in 1..Len(s) : s[i] = c
                 THEN CHOOSE i \in 1..Len(s) : s[i] = c /\ \A j \in 1..(i - 1) : s[j] # c
                 ELSE 0

\* f"{now}" for a float holding a whole number of seconds: "300.0".
FormatFloat(t) == Digits(t) \o <<".", "0">>

\* float(s): [ok, val].  Of Python's float syntax the texts here can only hold
\* digits and one point; anything else raises ValueError (ok = FALSE).
ParseFloat(s) ==
    LET dot  == IndexOf(s, ".")
        int  == IF dot = 0 THEN s ELSE SubSeq(s, 1, dot - 1)
        frac == IF dot = 0 THEN <<>> ELSE SubSeq(s, dot + 1, Len(s))
        good == /\ \A i \in 1..Len(int) : IsDigit(int[i])
                /\ \A i \in 1..Len(frac) : IsDigit(frac[i])
                /\ Len(int) + Len(frac) > 0
    IN  IF good THEN [ok |-> TRUE, val |-> DigitsVal(int)]
        ELSE [ok |-> FALSE, val |-> 0]

\* ------------------------------------------------- wrap_master.py: the cache

\* _read_cache with content.split("\n") for content.split("\n", 1): the
\* output is cut at its first newline.
ParseCache_SplitAll(content) ==
    LET nl    == IndexOf(content, NL)
        first == IF nl = 0 THEN content ELSE SubSeq(content, 1, nl - 1)
        rest  == IF nl = 0 THEN <<>> ELSE SubSeq(content, nl + 1, Len(content))
        line  == IF IndexOf(rest, NL) = 0 THEN rest ELSE SubSeq(rest, 1, IndexOf(rest, NL) - 1)
        t     == ParseFloat(first)
    IN  IF content = <<>> \/ ~t.ok
        THEN [ok |-> FALSE, time |-> 0, output |-> <<>>]
        ELSE [ok |-> TRUE, time |-> t.val, output |-> line]

\* _read_cache() from the point where the content has been read:
\* [ok, time, output], ok = FALSE standing for None.
ParseCache(content) ==
    LET nl    == IndexOf(content, NL)
        first == IF nl = 0 THEN content ELSE SubSeq(content, 1, nl - 1)
        rest  == IF nl = 0 THEN <<>> ELSE SubSeq(content, nl + 1, Len(content))
        t     == ParseFloat(first)
    IN  IF content = <<>> \/ ~t.ok
        THEN [ok |-> FALSE, time |-> 0, output |-> <<>>]
        ELSE [ok |-> TRUE, time |-> t.val, output |-> rest]

\* f"{now}\n{output}"
CacheText(now, output) == FormatFloat(now) \o <<NL>> \o output

\* What one master.py pass may leave on its stdout and stderr, and its exit
\* status.
PassResults ==
    LET log == <<"a", NL, "b">>
    IN  { [out |-> <<>>,    err |-> log,  rc |-> 0],
          [out |-> <<"o">>, err |-> log,  rc |-> 0],
          [out |-> <<"o">>, err |-> <<>>, rc |-> 1],
          [out |-> <<>>,    err |-> <<>>, rc |-> 1] }

\* output = result.stdout; if result.stderr: output += result.stderr
Combine(res) == IF res.err # <<>> THEN res.out \o res.err ELSE res.out

\* --------------------------------------------------- wrap_master.py: actions

\* The files as earlier invocations may have left them: nothing yet, or the
\* lock file and the cache entry of a pass run at time 0.
EarlierEntry == CacheText(0, <<"e", NL>>)

\* No invocation has started.
NoInvocation ==
    /\ lockHolder = 0
    /\ wmode = [p \in Procs |-> "none"]
    /\ wpc = [p \in Procs |-> "idle"]
    /\ wnow = [p \in Procs |-> 0]
    /\ woutput = [p \in Procs |-> <<>>]
    /\ wrc = [p \in Procs |-> 0]
    /\ wpending = [p \in Procs |-> <<>>]
    /\ wobserved = [p \in Procs |-> <<>>]
    /\ wprinted = [p \in Procs |-> <<>>]
    /\ wexit = [p \in Procs |-> -1]
    /\ wage = [p \in Procs |-> -1]
    /\ ranPass = [p \in Procs |-> FALSE]
    /\ blockedOn = [p \in Procs |-> 0]

\* The wrapper at rest, for the behaviours of the other programs.
WrapIdle ==
    /\ lockFileExists = FALSE
    /\ cacheExists = FALSE
    /\ cacheContent = <<>>
    /\ committed = <<>>
    /\ NoInvocation


\* main(): args.cache selects the mode.  Invocations are numbered in the
\* order in which they start.
Invoke(p, m) ==
    /\ wpc[p] = "idle"
    /\ \A q \in Procs : q < p => wpc[q] # "idle"
    /\ wmode' = [wmode EXCEPT ![p] = m]
    /\ wpc' = [wpc EXCEPT ![p] = IF m = "true" THEN "exists" ELSE "lockfile"]
    /\ UNCHANGED nonWrap
    /\ UNCHANGED <<clock, ticks, lockFileExists, lockHolder, cacheExists, cacheContent,
                   wnow, woutput, wrc, wpending, wobserved, wprinted, wexit, wage,
                   ranPass, blockedOn, committed>>

\* if not os.path.exists(LOCK_FILE): open(LOCK_FILE, "a").close()
EnsureLockFile(p) ==
    /\ wpc[p] = "lockfile"
    /\ lockFileExists' = TRUE
    /\ wpc' = [wpc EXCEPT ![p] = "flock"]
    /\ UNCHANGED nonWrap
    /\ UNCHANGED <<clock, ticks, lockHolder, cacheExists, cacheContent, wmode,
                   wnow, woutput, wrc, wpending, wobserved, wprinted, wexit, wage,
                   ranPass, blockedOn, committed>>

\* The wrong grant a shared lock (LOCK_SH) would give.
LockFree_Shared == TRUE

\* flock(LOCK_EX) is granted when no other open file description holds a lock.
LockFree == lockHolder = 0

\* lock_fd = os.open(LOCK_FILE, os.O_RDWR); fcntl.flock(lock_fd, LOCK_EX):
\* the call returns at once when the lock is free and blocks otherwise.
FlockCall(p) ==
    /\ wpc[p] = "flock"
    /\ lockFileExists
    /\ IF LockFree
       THEN /\ lockHolder' = p
            /\ wpc' = [wpc EXCEPT ![p] = "locked"]
            /\ UNCHANGED blockedOn
       ELSE /\ wpc' = [wpc EXCEPT ![p] = "blocked"]
            /\ blockedOn' = [blockedOn EXCEPT ![p] =
                   IF wpc[lockHolder] = "running" THEN lockHolder ELSE 0]
            /\ UNCHANGED lockHolder
    /\ UNCHANGED nonWrap
    /\ UNCHANGED <<clock, ticks, lockFileExists, cacheExists, cacheContent, wmode,
                   wnow, woutput, wrc, wpending, wobserved, wprinted, wexit, wage,
                   ranPass, committed>>

\* The blocked flock() call returns once the lock has been released.
FlockWake(p) ==
    /\ wpc[p] = "blocked"
    /\ LockFree
    /\ lockHolder' = p
    /\ wpc' = [wpc EXCEPT ![p] = "locked"]
    /\ UNCHANGED nonWrap
    /\ UNCHANGED <<clock, ticks, lockFileExists, cacheExists, cacheContent, wmode,
                   wnow, woutput, wrc, wpending, wobserved, wprinted, wexit, wage,
                   ranPass, blockedOn, committed>>

\* now = time.time(); subprocess.run([sys.executable, MASTER_SCRIPT], ...) starts.
MasterStart(p) ==
    /\ wpc[p] = "locked"
    /\ wnow' = [wnow EXCEPT ![p] = clock]
    /\ ranPass' = [ranPass EXCEPT ![p] = TRUE]
    /\ wpc' = [wpc EXCEPT ![p] = "running"]
    /\ UNCHANGED nonWrap
    /\ UNCHANGED <<clock, ticks, lockFileExists, lockHolder, cacheExists, cacheContent,
                   wmode, woutput, wrc, wpending, wobserved, wprinted, wexit, wage,
                   blockedOn, committed>>

\* subprocess.run returns; output = stdout (+ stderr).
MasterEnd(p) ==
    /\ wpc[p] = "running"
    /\ \E res \in PassResults :
          /\ woutput' = [woutput EXCEPT ![p] = Combine(res)]
          /\ wrc' = [wrc EXCEPT ![p] = res.rc]
    /\ wpc' = [wpc EXCEPT ![p] = "write"]
    /\ UNCHANGED nonWrap
    /\ UNCHANGED <<clock, ticks, lockFileExists, lockHolder, cacheExists, cacheContent,
                   wmode, wnow, wpending, wobserved, wprinted, wexit, wage,
                   ranPass, blockedOn, committed>>

\* open(CACHE_FILE, "w"): creates the file or truncates it to length 0;
\* f.write(...) leaves the text in the stream's buffer.
CacheOpen(p) ==
    /\ wpc[p] = "write"
    /\ cacheExists' = TRUE
    /\ cacheContent' = <<>>
    /\ wpending' = [wpending EXCEPT ![p] = CacheText(wnow[p], woutput[p])]
    /\ wpc' = [wpc EXCEPT ![p] = "writing"]
    /\ UNCHANGED nonWrap
    /\ UNCHANGED <<clock, ticks, lockFileExists, lockHolder, wmode, wnow, woutput, wrc,
                   wobserved, wprinted, wexit, wage, ranPass,
                   blockedOn, committed>>

\* The buffered text reaches the file in write() calls of at most BUFFER_SIZE
\* tokens each; leaving the with block flushes the rest and closes the file.
CacheWrite(p) ==
    /\ wpc[p] = "writing"
    /\ LET n == IF Len(wpending[p]) > BUFFER_SIZE THEN BUFFER_SIZE ELSE Len(wpending[p])
       IN  /\ cacheContent' = cacheContent \o SubSeq(wpending[p], 1, n)
           /\ wpending' = [wpending EXCEPT ![p] = SubSeq(wpending[p], n + 1, Len(wpending[p]))]
           /\ IF n = Len(wpending[p])
              THEN /\ wpc' = [wpc EXCEPT ![p] = "emit"]
                   /\ committed' = cacheContent'
              ELSE UNCHANGED <<wpc, committed>>
    /\ UNCHANGED nonWrap
    /\ UNCHANGED <<clock, ticks, lockFileExists, lockHolder, cacheExists, wmode, wnow,
                   woutput, wrc, wobserved, wprinted, wexit, wage, ranPass,
                   blockedOn>>

\* sys.stdout.write(output); sys.exit(result.returncode if result.returncode else 0)
Emit(p) ==
    /\ wpc[p] = "emit"
    /\ wprinted' = [wprinted EXCEPT ![p] = woutput[p]]
    /\ wexit' = [wexit EXCEPT ![p] = wrc[p]]
    /\ wpc' = [wpc EXCEPT ![p] = "finally"]
    /\ UNCHANGED nonWrap
    /\ UNCHANGED <<clock, ticks, lockFileExists, lockHolder, cacheExists, cacheContent,
                   wmode, wnow, woutput, wrc, wpending, wobserved, wage,
                   ranPass, blockedOn, committed>>

\* except OSError around the cache write: open() or a write() fails, the
\* warning is logged and the invocation goes on; what has reached the file
\* stays there.
CacheFail(p) ==
    /\ wpc[p] \in {"write", "writing"}
    /\ wpending' = [wpending EXCEPT ![p] = <<>>]
    /\ wpc' = [wpc EXCEPT ![p] = "emit"]
    /\ UNCHANGED nonWrap
    /\ UNCHANGED <<clock, ticks, lockFileExists, lockHolder, cacheExists, cacheContent,
                   wmode, wnow, woutput, wrc, wobserved, wprinted, wexit, wage,
                   ranPass, blockedOn, committed>>

\* except KeyboardInterrupt: log and raise.  Ctrl+C reaches the invocation
\* anywhere in the try block, the blocked flock() call included; control goes
\* to the finally clause and the exit status is that of the signal.
Interrupt(p) ==
    /\ wpc[p] \in {"lockfile", "flock", "blocked", "locked", "running", "write",
                   "writing", "emit"}
    /\ wpending' = [wpending EXCEPT ![p] = <<>>]
    /\ wexit' = [wexit EXCEPT ![p] = 130]
    /\ wpc' = [wpc EXCEPT ![p] = "finally"]
    /\ UNCHANGED nonWrap
    /\ UNCHANGED <<clock, ticks, lockFileExists, lockHolder, cacheExists, cacheContent,
                   wmode, wnow, woutput, wrc, wobserved, wprinted, wage,
                   ranPass, blockedOn, committed>>

\* The finally clause without the flock(lock_fd, LOCK_UN) call, in a process
\* that stays alive: the lock is kept.
Unlock_KeepLock(p) ==
    /\ wpc[p] = "finally"
    /\ wnow' = [wnow EXCEPT ![p] = 0]
    /\ woutput' = [woutput EXCEPT ![p] = <<>>]
    /\ wrc' = [wrc EXCEPT ![p] = 0]
    /\ wpc' = [wpc EXCEPT ![p] = "done"]
    /\ UNCHANGED nonWrap
    /\ UNCHANGED <<clock, ticks, lockFileExists, lockHolder, cacheExists, cacheContent,
                   wmode, wpending, wobserved, wprinted, wexit, wage,
                   ranPass, blockedOn, committed>>

\* finally: fcntl.flock(lock_fd, LOCK_UN); os.close(lock_fd).  The process
\* exits and its locals are gone.
Unlock(p) ==
    /\ wpc[p] = "finally"
    /\ lockHolder' = IF lockHolder = p THEN 0 ELSE lockHolder
    /\ wnow' = [wnow EXCEPT ![p] = 0]
    /\ woutput' = [woutput EXCEPT ![p] = <<>>]
    /\ wrc' = [wrc EXCEPT ![p] = 0]
    /\ wpc' = [wpc EXCEPT ![p] = "done"]
    /\ UNCHANGED nonWrap
    /\ UNCHANGED <<clock, ticks, lockFileExists, cacheExists, cacheContent,
                   wmode, wpending, wobserved, wprinted, wexit, wage,
                   ranPass, blockedOn, committed>>

\* _read_cache: if not os.path.exists(CACHE_FILE): return None
\* run_with_cache_true: entry is None -> "No cache available.", sys.exit(1)
ReadExists(p) ==
    /\ wpc[p] = "exists"
    /\ IF cacheExists
       THEN /\ wpc' = [wpc EXCEPT ![p] = "read"]
            /\ UNCHANGED wexit
       ELSE /\ wpc' = [wpc EXCEPT ![p] = "done"]
            /\ wexit' = [wexit EXCEPT ![p] = 1]
    /\ UNCHANGED nonWrap
    /\ UNCHANGED <<clock, ticks, lockFileExists, lockHolder, cacheExists, cacheContent,
                   wmode, wnow, woutput, wrc, wpending, wobserved, wprinted, wage,
                   ranPass, blockedOn, committed>>

\* with open(CACHE_FILE, "r") as f: content = f.read()
ReadOpen(p) ==
    /\ wpc[p] = "read"
    /\ wobserved' = [wobserved EXCEPT ![p] = cacheContent]
    /\ wpc' = [wpc EXCEPT ![p] = "parse"]
    /\ UNCHANGED nonWrap
    /\ UNCHANGED <<clock, ticks, lockFileExists, lockHolder, cacheExists, cacheContent,
                   wmode, wnow, woutput, wrc, wpending, wprinted, wexit, wage,
                   ranPass, blockedOn, committed>>

\* The rest of _read_cache and of run_with_cache_true: a miss exits 1, a hit
\* writes the cached output whatever its age and logs the age.
ReadFinish(p) ==
    /\ wpc[p] = "parse"
    /\ LET entry == ParseCache(wobserved[p])
       IN  IF entry.ok
           THEN /\ wage' = [wage EXCEPT ![p] = clock - entry.time]
                /\ wprinted' = [wprinted EXCEPT ![p] = entry.output]
                /\ wexit' = [wexit EXCEPT ![p] = 0]
           ELSE /\ wexit' = [wexit EXCEPT ![p] = 1]
                /\ UNCHANGED <<wage, wprinted>>
    /\ wobserved' = [wobserved EXCEPT ![p] = <<>>]
    /\ wpc' = [wpc EXCEPT ![p] = "done"]
    /\ UNCHANGED nonWrap
    /\ UNCHANGED <<clock, ticks, lockFileExists, lockHolder, cacheExists, cacheContent,
                   wmode, wnow, woutput, wrc, wpending,
                   ranPass, blockedOn, committed>>

\* The wall clock advances.
TickSteps == {1, CACHE_DURATION}

Tick ==
    /\ ticks < MaxTicks
    /\ \E d \in TickSteps : clock' = clock + d
    /\ ticks' = ticks + 1
    /\ UNCHANGED <<wrapVars, nonWrap>>


\* ------------------------------------------------ lock_util.py: lease names

\* A file name is modelled by the list of its parts between underscores, which
\* is what filename.split('_') returns; '_'.join gives the name back.
\* The time strings of the model, spelled as their numeric fields.
DateSpell == ("2026-01-01" :> <<2026, 1, 1>>)

TimeSpell ==
    ("00-00-00" :> <<0, 0, 0>>) @@ ("00-30-00" :> <<0, 30, 0>>) @@
    ("00-30-01" :> <<0, 30, 1>>) @@ ("00-40-00" :> <<0, 40, 0>>)

\* Seconds since the first day of the month of a conforming time string.
SecondsOf(date, time) ==
    ((DateSpell[date][3] - 1) * 24 + TimeSpell[time][1]) * 3600
        + TimeSpell[time][2] * 60 + TimeSpell[time][3]

\* The instants the clock of the lease model takes.
LeaseInstants == {SecondsOf(d, t) : d \in DOMAIN DateSpell, t \in DOMAIN TimeSpell}

\* get_lock_time_str(): utcnow().strftime(LOCK_TIME_FMT), as <<date, time>>.
get_lock_time_str(t) ==
    CHOOSE dt \in (DOMAIN DateSpell) \X (DOMAIN TimeSpell) : SecondsOf(dt[1], dt[2]) = t

\* _parse_lock_filename(filename): [ok, user, vm_name, time_str]; ok = FALSE
\* stands for None.  vm_name is kept as its list of parts.
parse_lock_filename(parts) ==
    IF Len(parts) < 4
    THEN [ok |-> FALSE, user |-> "", vm_name |-> <<>>, time_str |-> <<"", "">>]
    ELSE [ok |-> TRUE,
          user |-> parts[1],
          vm_name |-> SubSeq(parts, 2, Len(parts) - 2),
          time_str |-> <<parts[Len(parts) - 1], parts[Len(parts)]>>]

\* parse_lock_time_str(s): strptime(s, "%Y-%m-%d_%H-%M-%S"); ok = FALSE
\* stands for ValueError.
parse_lock_time_str(ts) ==
    IF ts[1] \in DOMAIN DateSpell /\ ts[2] \in DOMAIN TimeSpell
    THEN [ok |-> TRUE, val |-> SecondsOf(ts[1], ts[2])]
    ELSE [ok |-> FALSE, val |-> 0]

\* lock_time_seconds_between(earlier, later)
lock_time_seconds_between(earlier, later) ==
    LET t1 == parse_lock_time_str(earlier)
        t2 == parse_lock_time_str(later)
    IN  IF t1.ok /\ t2.ok THEN [ok |-> TRUE, val |-> t2.val - t1.val]
        ELSE [ok |-> FALSE, val |-> 0]

\* ------------------------------------- master.py: collect_recent_reservations

\* A lease taken for hours what is given in seconds.
IsExpired_Hours(seconds_ago) == seconds_ago > LOCK_EXPIRE_SECONDS * 60

\* if seconds_ago > LOCK_EXPIRE_SECONDS
IsExpired(seconds_ago) == seconds_ago > LOCK_EXPIRE_SECONDS

\* ScanOne with `reservations[vm_name] = user` done for every valid lease:
\* the last one encountered wins.
ScanOne_LastWins(file, now, res) ==
    LET parsed == parse_lock_filename(file)
        ago    == lock_time_seconds_between(parsed.time_str, now)
        others == [vm \in (DOMAIN res) \ {parsed.vm_name} |-> res[vm]]
    IN  IF ~parsed.ok THEN [res |-> res, remove |-> FALSE]
        ELSE IF ~ago.ok THEN [res |-> res, remove |-> TRUE]
        ELSE IF IsExpired(ago.val) THEN [res |-> res, remove |-> TRUE]
        ELSE [res |-> others @@ (parsed.vm_name :> parsed.user), remove |-> FALSE]

\* One iteration of the loop over the files: [res, remove], the reservations
\* after it and whether os.remove is called on the file.
ScanOne(file, now, res) ==
    LET parsed == parse_lock_filename(file)
        ago    == lock_time_seconds_between(parsed.time_str, now)
    IN  IF ~parsed.ok THEN [res |-> res, remove |-> FALSE]
        ELSE IF ~ago.ok THEN [res |-> res, remove |-> TRUE]
        ELSE IF IsExpired(ago.val) THEN [res |-> res, remove |-> TRUE]
        ELSE IF parsed.vm_name \in DOMAIN res THEN [res |-> res, remove |-> FALSE]
        ELSE [res |-> res @@ (parsed.vm_name :> parsed.user), remove |-> FALSE]

\* Who takes a lease while the scans run, and for which instance.
Users == {"alice", "bob"}

VmNames == {"llq-7"}

\* Files that may lie in the directory at time 0: leases taken at time 0, one of
\* them for a name with an underscore, and names that are no lease names.
InitFiles ==
    { <<"alice", "llq-7", "2026-01-01", "00-00-00">>,
      <<"bob", "llq-7", "2026-01-01", "00-00-00">>,
      <<"bob", "my", "vm", "2026-01-01", "00-00-00">>,
      <<"alice", "llq-7", "2026-01-01", "old">>,
      <<"alice", "llq-7", "old">> }

\* The orders in which os.listdir may return the files.
Orders(S) ==
    {q \in [1..Cardinality(S) -> S] : \A i, j \in 1..Cardinality(S) : q[i] = q[j] => i = j}

Range(q) == {q[i] : i \in 1..Len(q)}

EmptyMap == <<>>

NoScan ==
    /\ scans = 0
    /\ purged = {}
    /\ spc = "idle"
    /\ snow = <<"", "">>
    /\ sfiles = <<>>
    /\ sidx = 0
    /\ sres = EmptyMap

LeaseIdle ==
    /\ dir = {}
    /\ NoScan

\* reservations = {}; now = get_lock_time_str(); files = os.listdir(LOCK_DIR)
ScanStart ==
    /\ spc \in {"idle", "returned"}
    /\ scans < MaxScans
    /\ scans' = scans + 1
    /\ snow' = get_lock_time_str(clock)
    /\ \E order \in Orders(dir) : sfiles' = order
    /\ sidx' = 0
    /\ sres' = EmptyMap
    /\ spc' = "loop"
    /\ UNCHANGED <<clock, ticks, wrapVars, auditVars, toolVars, dir, purged>>

\* os.listdir raises OSError: the scan logs and returns no reservations.
ScanListFail ==
    /\ spc \in {"idle", "returned"}
    /\ scans < MaxScans
    /\ scans' = scans + 1
    /\ snow' = get_lock_time_str(clock)
    /\ sfiles' = <<>>
    /\ sidx' = 0
    /\ sres' = EmptyMap
    /\ spc' = "returned"
    /\ UNCHANGED <<clock, ticks, wrapVars, auditVars, toolVars, dir, purged>>

\* One iteration of "for file in files"; os.remove of a file that is gone
\* raises OSError, which is passed over.
ScanFile ==
    /\ spc = "loop"
    /\ sidx < Len(sfiles)
    /\ LET file == sfiles[sidx + 1]
           r    == ScanOne(file, snow, sres)
       IN  /\ sres' = r.res
           /\ dir' = IF r.remove THEN dir \ {file} ELSE dir
    /\ sidx' = sidx + 1
    /\ UNCHANGED <<clock, ticks, wrapVars, auditVars, toolVars, scans, purged, spc, snow, sfiles>>

\* A lease the scan has seen is expired at the scan's time.
ExpiredAt(file, now) ==
    /\ Len(file) >= 4
    /\ <<file[Len(file) - 1], file[Len(file)]>> \in (DOMAIN DateSpell) \X (DOMAIN TimeSpell)
    /\ SecondsOf(now[1], now[2]) - SecondsOf(file[Len(file) - 1], file[Len(file)])
           > LOCK_EXPIRE_SECONDS

\* return reservations
ScanReturn ==
    /\ spc = "loop"
    /\ sidx = Len(sfiles)
    /\ spc' = "returned"
    /\ purged' = purged \cup {f \in Range(sfiles) : ExpiredAt(f, snow)}
    /\ UNCHANGED <<clock, ticks, wrapVars, auditVars, toolVars, dir, scans, snow, sfiles, sidx, sres>>

\* lock_util.zhan(user, vm_name): a lease file named for the current time.
Zhan(user, vm) ==
    /\ Cardinality(dir) < MaxFiles
    /\ dir' = dir \cup {<<user, vm>> \o get_lock_time_str(clock)}
    /\ UNCHANGED <<clock, ticks, wrapVars, auditVars, toolVars, scans, purged, spc, snow, sfiles, sidx, sres>>

\* The scan of another process (every pass scans the directory, without a
\* lock): it calls os.remove on a file on which its own iteration, started at
\* some time up to now, does so.
RivalRemove(file) ==
    /\ file \in dir
    /\ \E t \in LeaseInstants :
          t <= clock /\ ScanOne(file, get_lock_time_str(t), EmptyMap).remove
    /\ dir' = dir \ {file}
    /\ UNCHANGED <<clock, ticks, wrapVars, auditVars, toolVars, scans, purged, spc, snow, sfiles, sidx, sres>>

\* ---------------------------------------- lock_util.py: check_reserved_user

\* The instances check_reserved_user is asked about, as lists of name parts.
ReservedQueries == {<<"llq-7">>, <<"my", "vm">>}

\* The loop of check_reserved_user from file i on: [user, removed], user = ""
\* standing for None.  A name that does not parse or names another instance
\* is passed over; a lease with an unreadable time or older than 30 * 60
\* seconds is removed; the first other lease ends the loop with its user.
RECURSIVE CheckFrom(_, _, _, _)
CheckFrom(files, i, tpu, now) ==
    IF i > Len(files) THEN [user |-> "", removed |-> {}]
    ELSE LET parsed == parse_lock_filename(files[i])
             ago    == lock_time_seconds_between(parsed.time_str, now)
             rest   == CheckFrom(files, i + 1, tpu, now)
         IN  IF ~parsed.ok THEN rest
             ELSE IF parsed.vm_name # tpu THEN rest
             ELSE IF ~ago.ok THEN [user |-> rest.user, removed |-> rest.removed \cup {files[i]}]
             ELSE IF ago.val > 30 * 60
                  THEN [user |-> rest.user, removed |-> rest.removed \cup {files[i]}]
             ELSE [user |-> parsed.user, removed |-> {}]

\* check_reserved_user removing every lease of the instance, whatever its age.
check_reserved_user_PurgeAll(tpu, files, now) ==
    [user |-> "",
     removed |-> {f \in Range(files) :
                     parse_lock_filename(f).ok /\ parse_lock_filename(f).vm_name = tpu}]

\* check_reserved_user(tpu) over the listing files at time now.
check_reserved_user(tpu, files, now) == CheckFrom(files, 1, tpu, now)

\* A process calls check_reserved_user(tpu): now = get_lock_time_str(), the
\* files come in the order of os.listdir; os.remove of a file another scan
\* has removed raises OSError, which is passed over.
CheckReserved(tpu) ==
    /\ \E order \in Orders(dir) :
          dir' = dir \ check_reserved_user(tpu, order, get_lock_time_str(clock)).removed
    /\ UNCHANGED <<clock, ticks, wrapVars, auditVars, toolVars, scans, purged, spc, snow, sfiles, sidx, sres>>

\* The clock moves on to a later instant.
TickLease ==
    /\ \E t \in LeaseInstants : t > clock /\ clock' = t
    /\ UNCHANGED <<ticks, wrapVars, auditVars, toolVars, leaseVars>>


\* ------------------------------------------------------- master.py: utilities

\* The zones of the pass, in the order of ZONES.
ZONES == SubSeq(<<"us-central1-a", "us-central1-b", "us-central2-b", "us-east1-d",
                  "us-east5-a", "us-east5-b", "europe-west4-a", "asia-northeast1-b">>,
                1, NumZones)

PREFIXES == <<"llq", "keya", "dmy", "gzy", "kangyang">>

OTHER_PREFIX == "__OTHER__"

\* The spelling of the strings of which the code looks at the characters.
Spell ==
    ("llq" :> <<"l", "l", "q">>) @@
    ("keya" :> <<"k", "e", "y", "a">>) @@
    ("dmy" :> <<"d", "m", "y">>) @@
    ("gzy" :> <<"g", "z", "y">>) @@
    ("kangyang" :> <<"k", "a", "n", "g", "y", "a", "n", "g">>) @@
    ("kmh-tpuvm-v3-8" :> <<"k", "m", "h", "-", "t", "p", "u", "v", "m", "-", "v", "3", "-", "8">>) @@
    ("kmh-tpuvm-v4-8-" :> <<"k", "m", "h", "-", "t", "p", "u", "v", "m", "-", "v", "4", "-", "8", "-">>) @@
    ("kmh-tpuvm-v4-8-4" :> <<"k", "m", "h", "-", "t", "p", "u", "v", "m", "-", "v", "4", "-", "8", "-", "4">>) @@
    ("llq-7" :> <<"l", "l", "q", "-", "7">>) @@
    ("llq-9" :> <<"l", "l", "q", "-", "9">>) @@
    ("" :> <<>>) @@
    ("nopre" :> <<"n", "o", "p", "r", "e">>) @@
    ("v5p-8" :> <<"v", "5", "p", "-", "8">>) @@
    ("v6e-8" :> <<"v", "6", "e", "-", "8">>) @@
    ("a-v5p-8" :> <<"a", "-", "v", "5", "p", "-", "8">>) @@
    ("b-v6e-8" :> <<"b", "-", "v", "6", "e", "-", "8">>) @@
    ("nopre-v5p-8" :> <<"n", "o", "p", "r", "e", "-", "v", "5", "p", "-", "8">>) @@
    ("keya-llq-1" :> <<"k", "e", "y", "a", "-", "l", "l", "q", "-", "1">>) @@
    ("misc-3" :> <<"m", "i", "s", "c", "-", "3">>) @@
    ("kmh-tpuvm-v4-8-12" :> <<"k", "m", "h", "-", "t", "p", "u", "v", "m", "-", "v", "4", "-", "8", "-", "1", "2">>) @@
    ("kmh-tpuvm-v3-8-llq" :> <<"k", "m", "h", "-", "t", "p", "u", "v", "m", "-", "v", "3", "-", "8", "-", "l", "l", "q">>)

\* sub in str
Contains(sub, str) ==
    \E i \in 1..(Len(Spell[str]) - Len(Spell[sub]) + 1) :
        SubSeq(Spell[str], i, i + Len(Spell[sub]) - 1) = Spell[sub]

SkipStates == {"PREEMPTED", "TERMINATED", "CREATING", "DELETING", "REPAIRING", "STOPPED"}

\* should_skip_tpu without the test of the state.
should_skip_tpu_NameOnly(name, zone, state) ==
    \/ name = "kmh-tpuvm-v4-8-4"
    \/ Contains("kmh-tpuvm-v3-8", name)
    \/ Contains("kmh-tpuvm-v4-8-", name)

should_skip_tpu(name, zone, state) ==
    \/ state \in SkipStates
    \/ name = "kmh-tpuvm-v4-8-4"
    \/ Contains("kmh-tpuvm-v3-8", name)
    \/ Contains("kmh-tpuvm-v4-8-", name)

\* A line of the listing is modelled by its fields between tabs, a field by
\* its tokens: a word, with blanks before or after it.
IsBlank(field) == \A i \in 1..Len(field) : field[i] = " "

\* field.strip(), for a field of at most one word
Strip(field) == IF IsBlank(field) THEN ""
                ELSE field[CHOOSE i \in 1..Len(field) : field[i] # " "]

\* The loop of list_tpus_in_zone over out.splitlines(), from line i on:
\* [active, preempted].
RECURSIVE ParseListing(_, _, _)
ParseListing(lines, i, zone) ==
    IF i > Len(lines) THEN [active |-> <<>>, preempted |-> <<>>]
    ELSE LET rest  == ParseListing(lines, i + 1, zone)
             parts == lines[i]
             name  == Strip(parts[1])
             state == Strip(parts[2])
         IN  IF \A k \in 1..Len(parts) : IsBlank(parts[k]) THEN rest
             ELSE IF Len(parts) < 2 THEN rest
             ELSE IF state = "PREEMPTED"
                  THEN [rest EXCEPT !.preempted =
                           <<[name |-> name, zone |-> zone, state |-> state]>> \o @]
             ELSE IF should_skip_tpu(name, zone, state) THEN rest
             ELSE [rest EXCEPT !.active = <<[name |-> name, zone |-> zone]>> \o @]

\* The loop with the skip policy for names applied before the test for
\* PREEMPTED: a preempted dev machine is left alone.
RECURSIVE ParseListing_SkipFirst(_, _, _)
ParseListing_SkipFirst(lines, i, zone) ==
    IF i > Len(lines) THEN [active |-> <<>>, preempted |-> <<>>]
    ELSE LET rest  == ParseListing_SkipFirst(lines, i + 1, zone)
             parts == lines[i]
             name  == Strip(parts[1])
             state == Strip(parts[2])
         IN  IF \A k \in 1..Len(parts) : IsBlank(parts[k]) THEN rest
             ELSE IF Len(parts) < 2 THEN rest
             ELSE IF should_skip_tpu_NameOnly(name, zone, state) THEN rest
             ELSE IF state = "PREEMPTED"
                  THEN [rest EXCEPT !.preempted =
                           <<[name |-> name, zone |-> zone, state |-> state]>> \o @]
             ELSE IF should_skip_tpu(name, zone, state) THEN rest
             ELSE [rest EXCEPT !.active = <<[name |-> name, zone |-> zone]>> \o @]

list_tpus_in_zone_SkipFirst(zone, out) ==
    IF out.ok THEN ParseListing_SkipFirst(out.lines, 1, zone)
    ELSE [active |-> <<>>, preempted |-> <<>>]

\* list_tpus_in_zone(zone) when the listing call gave out = [ok, lines]: a
\* failed call is logged and leaves both lists empty.
list_tpus_in_zone(zone, out) ==
    IF out.ok THEN ParseListing(out.lines, 1, zone)
    ELSE [active |-> <<>>, preempted |-> <<>>]

\* assign_prefix(name, prefixes), from entry i on
RECURSIVE assign_prefix_from(_, _, _)
assign_prefix_from(name, prefixes, i) ==
    IF i > Len(prefixes) THEN OTHER_PREFIX
    ELSE IF Contains(prefixes[i], name) THEN prefixes[i]
    ELSE assign_prefix_from(name, prefixes, i + 1)

\* assign_prefix with the loop going on after a match: the last match wins.
assign_prefix_Last(name, prefixes) ==
    LET hits == {i \in 1..Len(prefixes) : Contains(prefixes[i], name)}
    IN  IF hits = {} THEN OTHER_PREFIX
        ELSE prefixes[CHOOSE i \in hits : \A j \in hits : j <= i]

assign_prefix(name, prefixes) == assign_prefix_from(name, prefixes, 1)

\* The priority lists of the calls: entries of PREFIXES, none twice, in any
\* order.
PriorityLists ==
    {l \in UNION {[1..n -> Range(PREFIXES)] : n \in 0..MaxPrefixes} :
        \A i, j \in 1..Len(l) : l[i] = l[j] => i = j}

\* The instance names of the calls: one entry matches, none, two, one at the
\* end of the name.
TagNames == {"llq-7", "misc-3", "keya-llq-1", "kmh-tpuvm-v3-8-llq"}

\* No call of assign_prefix is looked at.
TagIdle ==
    /\ tprefixes = <<>>
    /\ tname = ""
    /\ ttag = ""

\* assign_prefix(name, prefixes) has returned.
TagStart ==
    \E l \in PriorityLists, n \in TagNames :
        /\ tprefixes = l
        /\ tname = n
        /\ ttag = assign_prefix(n, l)

\* The same call with two entries of the list exchanged.
Reorder(i, j) ==
    /\ i < j
    /\ j <= Len(tprefixes)
    /\ tprefixes' = [tprefixes EXCEPT ![i] = tprefixes[j], ![j] = tprefixes[i]]
    /\ ttag' = assign_prefix(tname, tprefixes')
    /\ UNCHANGED <<clock, ticks, wrapVars, leaseVars, auditVars, deleteVars, tname>>

\* ---------------------------------------------------- master.py: core check

\* What an external call does: it returns with exit status returncode, having
\* printed stdout and stderr, or it runs into its timeout, or it raises
\* something else (stderr then stands for the text of the exception).
Exit(rc, out, err) == [kind |-> "exit", returncode |-> rc, stdout |-> out, stderr |-> err]
TimedOut == [kind |-> "timeout", returncode |-> 0, stdout |-> <<>>, stderr |-> ""]
Raised(e) == [kind |-> "exception", returncode |-> 0, stdout |-> <<>>, stderr |-> e]

\* A line of the remote command's output is modelled by its tokens: the
\* marker "CHECK_RES:", the words "IDLE" and "BUSY", "|", "USER:", a blank,
\* and other words.
\* s.strip(): s without the blanks at its ends
StripBlanks(s) ==
    IF \A i \in 1..Len(s) : s[i] = " " THEN <<>>
    ELSE LET a == CHOOSE i \in 1..Len(s) : s[i] # " " /\ \A j \in 1..(i - 1) : s[j] = " "
             b == CHOOSE i \in 1..Len(s) : s[i] # " " /\ \A j \in (i + 1)..Len(s) : s[j] = " "
         IN  SubSeq(s, a, b)

\* s.split(sep): the pieces of s between the occurrences of sep
RECURSIVE SplitBy(_, _)
SplitBy(s, sep) ==
    LET i == IndexOf(s, sep)
    IN  IF i = 0 THEN <<s>>
        ELSE <<SubSeq(s, 1, i - 1)>> \o SplitBy(SubSeq(s, i + 1, Len(s)), sep)

\* payload = line.split("CHECK_RES:")[1].strip()
Payload(line) == StripBlanks(SplitBy(line, "CHECK_RES:")[2])

\* The users named by the parts of a BUSY payload:
\* for part in payload.split("|"): if part.startswith("USER:"): part.split(":", 1)[1]
PayloadUsers(payload) ==
    LET parts == SplitBy(payload, "|")
    IN  {Tail(parts[k]) : k \in {j \in 1..Len(parts) : parts[j] # <<>> /\ parts[j][1] = "USER:"}}

\* payload.startswith("BUSY")
StartsBusy(payload) == payload # <<>> /\ payload[1] = "BUSY"

\* The loop over res.stdout.splitlines(), from line i on:
\* [saw_check, saw_busy, users].
RECURSIVE ScanOutput(_, _)
ScanOutput(lines, i) ==
    IF i > Len(lines) THEN [saw_check |-> FALSE, saw_busy |-> FALSE, users |-> {}]
    ELSE LET rest == ScanOutput(lines, i + 1)
             line == lines[i]
         IN  IF IndexOf(line, "CHECK_RES:") = 0 THEN rest
             ELSE IF Payload(line) = <<"IDLE">> THEN [rest EXCEPT !.saw_check = TRUE]
             ELSE IF StartsBusy(Payload(line))
                  THEN [saw_check |-> TRUE, saw_busy |-> TRUE,
                        users |-> rest.users \cup PayloadUsers(Payload(line))]
             ELSE [rest EXCEPT !.saw_check = TRUE]

\* The messages, as the pieces of their f-strings; users stands for
\* sorted(users).
Message(text, users) == [users |-> users, text |-> text]

\* The body of the try block of check_single_tpu when subprocess.run returned.
TryBody(tpu, out) ==
    LET name   == tpu.name
        zone   == tpu.zone
        prefix == tpu.prefix
        agg    == ScanOutput(out.stdout, 1)
    IN  IF out.returncode # 0
        THEN <<prefix, name, zone, "SSH_FAIL",
               Message(<<"[", prefix, "] [SSH_FAIL] ", name, ": ", out.stderr>>, {})>>
        ELSE IF ~agg.saw_check
        THEN <<prefix, name, zone, "ERROR",
               Message(<<"[", prefix, "] [ERROR] ", name, ": no CHECK_RES in output">>, {})>>
        ELSE IF ~agg.saw_busy
        THEN <<prefix, name, zone, "IDLE",
               Message(<<"[", prefix, "] [IDLE] ", name, " (", zone, ")">>, {})>>
        ELSE <<prefix, name, zone, "BUSY",
               Message(<<"[", prefix, "] [BUSY] ", name, " (", zone, ") users=">>, agg.users)>>

\* check_single_tpu without its except clauses: a call that does not return
\* leaves the worker without a result.
check_single_tpu_NoCatch(tpu, out) ==
    IF out.kind = "exit" THEN TryBody(tpu, out) ELSE <<>>

\* check_single_tpu(tpu) when the remote call did out: kind "exit" (it
\* returned), "timeout" (TimeoutExpired) or "exception" (any other exception).
check_single_tpu(tpu, out) ==
    IF out.kind = "timeout"
    THEN <<tpu.prefix, tpu.name, tpu.zone, "TIMEOUT",
           Message(<<"[", tpu.prefix, "] [TIMEOUT] ", tpu.name>>, {})>>
    ELSE IF out.kind = "exception"
    THEN <<tpu.prefix, tpu.name, tpu.zone, "ERROR",
           Message(<<"[", tpu.prefix, "] [ERROR] ", tpu.name, ": ", out.stderr>>, {})>>
    ELSE TryBody(tpu, out)

\* delete_preempted_tpu(tpu_info) when the delete call did out; with
\* check=True a non-zero exit status raises CalledProcessError.
delete_preempted_tpu(tpu_info, out) ==
    IF out.kind = "timeout" THEN <<"DELETE_TIMEOUT", tpu_info.name, tpu_info.zone>>
    ELSE IF out.kind = "exception" \/ out.returncode # 0
    THEN <<"DELETE_FAIL", tpu_info.name, tpu_info.zone>>
    ELSE <<"DELETE_SUCCESS", tpu_info.name, tpu_info.zone>>

\* process_task(task)
process_task(task, out) ==
    IF "state" \in DOMAIN task THEN delete_preempted_tpu(task, out)
    ELSE check_single_tpu(task, out)

\* ------------------------------------------------- master.py: run_audit_all

Zones == 1..NumZones

\* A line "name<TAB>state" of a listing.
Record(name, state) == << <<name>>, <<state>> >>

\* The lines a listing call may print: instances in every state, the excluded
\* instance, dev machines, preempted instances, and lines that are no records.
LinePool ==
    { Record("llq-7", "READY"), Record("misc-3", "READY"),
      Record("kmh-tpuvm-v4-8-4", "READY"), Record("kmh-tpuvm-v3-8-llq", "READY"),
      Record("kmh-tpuvm-v4-8-12", "READY"),
      Record("llq-9", "PREEMPTED"), Record("kmh-tpuvm-v4-8-4", "PREEMPTED") }
    \cup { Record("misc-3", st) : st \in SkipStates \ {"PREEMPTED", "STOPPED"} }
    \cup { << <<" ", "misc-3">>, <<"STOPPED", " ">> >>, \* blanks around the fields
           << <<"llq-7">> >>,                            \* no tab
           << <<" ">> >> }                               \* a blank line

SeqsUpTo(S, n) == UNION {[1..k -> S] : k \in 0..n}

\* The lines the listing calls made so far returned together.
RECURSIVE LinesListed(_, _)
LinesListed(l, z) ==
    IF z = 0 THEN 0
    ELSE LinesListed(l, z - 1) + (IF l[z] = <<>> THEN 0 ELSE Len(l[z][1].lines))

\* What the ssh call of a probe does in a pass.
ProbeOutcomes ==
    { Exit(0, << <<"CHECK_RES:", "IDLE">> >>, ""),
      Exit(0, << <<"CHECK_RES:", "BUSY", "|", "USER:", "alice">> >>, ""),
      Exit(0, <<>>, ""),
      Exit(255, <<>>, "Permission denied"),
      TimedOut,
      Raised("gcloud not found") }

\* What the delete call does in a pass.
DeleteOutcomes == {Exit(0, <<>>, ""), Exit(1, <<>>, "not found"), TimedOut, Raised("gcloud not found")}

Outcomes(task) == IF "state" \in DOMAIN task THEN DeleteOutcomes ELSE ProbeOutcomes

\* No pass is running.
AuditIdle ==
    /\ apc = "off"
    /\ listing = <<>>
    /\ zone_results = <<>>
    /\ all_tpus = <<>>
    /\ all_preempted = <<>>
    /\ all_tasks = <<>>
    /\ all_results = <<>>
    /\ remote = <<>>
    /\ delete_results = <<>>
    /\ check_results = <<>>
    /\ summary = <<>>

\* run_audit_all starts: pool.map(list_tpus_in_zone, ZONES) is under way.
AuditStart ==
    /\ apc = "listing"
    /\ listing = [z \in Zones |-> <<>>]
    /\ zone_results = [z \in Zones |-> <<>>]
    /\ all_tpus = <<>>
    /\ all_preempted = <<>>
    /\ all_tasks = <<>>
    /\ all_results = <<>>
    /\ remote = <<>>
    /\ delete_results = <<>>
    /\ check_results = <<>>
    /\ summary = <<>>

\* A worker of the first pool runs list_tpus_in_zone(ZONES[z]).
ListZone(z) ==
    /\ apc = "listing"
    /\ listing[z] = <<>>
    /\ \E out \in {[ok |-> FALSE, lines |-> <<>>]} \cup
                  {[ok |-> TRUE, lines |-> l] :
                      l \in SeqsUpTo(LinePool, MaxFleet - LinesListed(listing, NumZones))} :
          /\ listing' = [listing EXCEPT ![z] = <<out>>]
          /\ zone_results' = [zone_results EXCEPT ![z] = <<list_tpus_in_zone(ZONES[z], out)>>]
    /\ UNCHANGED <<clock, ticks, wrapVars, leaseVars, toolVars, apc, all_tpus, all_preempted,
                   all_tasks, all_results, remote, delete_results, check_results, summary>>

\* The listing call of zone z never returns.  check_output is called without a
\* timeout, so the worker waits for it for ever and gives no result.
ListHang(z) ==
    /\ apc = "listing"
    /\ listing[z] = <<>>
    /\ listing' = [listing EXCEPT ![z] = <<[ok |-> FALSE, lines |-> <<>>]>>]
    /\ UNCHANGED <<clock, ticks, wrapVars, leaseVars, toolVars, apc, zone_results, all_tpus,
                   all_preempted, all_tasks, all_results, remote, delete_results,
                   check_results, summary>>

\* all_tpus.extend(active_list) / all_preempted.extend(preempted_list) over
\* zone_results, from zone z on.
RECURSIVE Extend(_, _, _)
Extend(zr, z, field) ==
    IF z > Len(zr) THEN <<>>
    ELSE (IF field = "active" THEN zr[z][1].active ELSE zr[z][1].preempted)
             \o Extend(zr, z + 1, field)

\* t["prefix"] = assign_prefix(t["name"], prefixes)
WithPrefix(t, prefixes) ==
    [name |-> t.name, zone |-> t.zone, prefix |-> assign_prefix(t.name, prefixes)]

\* Gather where the failure of one listing call ends the pass.
Gather_AllOrNothing ==
    /\ apc = "listing"
    /\ \A z \in Zones : zone_results[z] # <<>>
    /\ LET tpus      == Extend(zone_results, 1, "active")
           preempted == Extend(zone_results, 1, "preempted")
           tagged    == [i \in 1..Len(tpus) |-> WithPrefix(tpus[i], PREFIXES)]
       IN  IF (tpus = <<>> /\ preempted = <<>>) \/ \E z \in Zones : ~listing[z][1].ok
           THEN /\ apc' = "nothing"
                /\ UNCHANGED <<all_tpus, all_preempted, all_tasks, all_results, remote>>
           ELSE /\ apc' = "tasks"
                /\ all_tpus' = tagged
                /\ all_preempted' = preempted
                /\ all_tasks' = preempted \o tagged
                /\ UNCHANGED <<all_results, remote>>
    /\ UNCHANGED <<clock, ticks, wrapVars, leaseVars, toolVars, listing, zone_results,
                   delete_results, check_results, summary>>

\* The first pool has returned: the lists are joined and the tasks are made;
\* with nothing found the pass ends here.
Gather ==
    /\ apc = "listing"
    /\ \A z \in Zones : zone_results[z] # <<>>
    /\ LET tpus      == Extend(zone_results, 1, "active")
           preempted == Extend(zone_results, 1, "preempted")
           tagged    == [i \in 1..Len(tpus) |-> WithPrefix(tpus[i], PREFIXES)]
       IN  IF tpus = <<>> /\ preempted = <<>>
           THEN /\ apc' = "nothing"
                /\ UNCHANGED <<all_tpus, all_preempted, all_tasks, all_results, remote>>
           ELSE /\ apc' = "tasks"
                /\ all_tpus' = tagged
                /\ all_preempted' = preempted
                /\ all_tasks' = preempted \o tagged
                /\ UNCHANGED <<all_results, remote>>
    /\ UNCHANGED <<clock, ticks, wrapVars, leaseVars, toolVars, listing, zone_results,
                   delete_results, check_results, summary>>

\* pool.map(process_task, all_tasks) starts.  What the listing calls gave and
\* zone_results are not used from here on and are forgotten.
StartPool ==
    /\ apc = "tasks"
    /\ apc' = "dispatch"
    /\ all_results' = [i \in 1..Len(all_tasks) |-> <<>>]
    /\ remote' = [i \in 1..Len(all_tasks) |-> <<>>]
    /\ listing' = <<>>
    /\ zone_results' = <<>>
    /\ UNCHANGED <<clock, ticks, wrapVars, leaseVars, toolVars, all_tpus, all_preempted, all_tasks,
                   delete_results, check_results, summary>>

\* Dispatch with the results kept in the order in which the workers finish
\* (imap_unordered for map): the result goes to the first free place.
Dispatch_Unordered(i, outs) ==
    /\ apc = "dispatch"
    /\ i \in 1..Len(all_tasks)
    /\ remote[i] = <<>>
    /\ \E out \in outs :
          LET k == CHOOSE j \in 1..Len(all_results) :
                       all_results[j] = <<>> /\ \A h \in 1..(j - 1) : all_results[h] # <<>>
          IN  /\ remote' = [remote EXCEPT ![i] = Append(@, out)]
              /\ all_results' = [all_results EXCEPT ![k] = process_task(all_tasks[i], out)]
    /\ UNCHANGED <<clock, ticks, wrapVars, leaseVars, toolVars, apc, listing, zone_results,
                   all_tpus, all_preempted, all_tasks, delete_results, check_results,
                   summary>>

\* A worker of the second pool runs process_task(all_tasks[i]); the external
\* call does one of outs.
Dispatch(i, outs) ==
    /\ apc = "dispatch"
    /\ i \in 1..Len(all_tasks)
    /\ all_results[i] = <<>>
    /\ \E out \in outs :
          /\ remote' = [remote EXCEPT ![i] = Append(@, out)]
          /\ all_results' = [all_results EXCEPT ![i] = process_task(all_tasks[i], out)]
    /\ UNCHANGED <<clock, ticks, wrapVars, leaseVars, toolVars, apc, listing, zone_results,
                   all_tpus, all_preempted, all_tasks, delete_results, check_results,
                   summary>>

ProcessTask(i) == i \in 1..Len(all_tasks) /\ Dispatch(i, Outcomes(all_tasks[i]))

\* The lines a worker of the instance may print, by their tokens.
OutLinePool ==
    { <<"CHECK_RES:", "IDLE">>,
      <<"CHECK_RES:", " ", "IDLE", " ">>,
      <<"CHECK_RES:", "BUSY", "|", "USER:", "alice">>,
      <<"CHECK_RES:", "BUSY", "|", "USER:", "bob">>,
      <<"CHECK_RES:", "BUSY", "|", "USER:", "alice", "|", "USER:", "bob">>,
      <<"CHECK_RES:", "BUSY">>,
      <<"CHECK_RES:", "IDLE", "|", "USER:", "alice">>,
      <<"CHECK_RES:", "UNKNOWN">>,
      <<"CHECK_RES:">>,
      <<"Warning:", " ", "IDLE">>,
      <<"x", "CHECK_RES:", "IDLE", "CHECK_RES:", "BUSY">> }

\* A probe whose ssh call returns with exit status 0 and any such lines.
ProbeAny == Dispatch(1, {Exit(0, lines, "") : lines \in SeqsUpTo(OutLinePool, MaxOutLines)})

\* The second pool is at work on one probe.
ProbeStart ==
    /\ apc = "dispatch"
    /\ listing = <<>>
    /\ zone_results = <<>>
    /\ all_preempted = <<>>
    /\ \E name \in {"llq-7", "misc-3"}, z \in Zones :
          all_tpus = <<WithPrefix([name |-> name, zone |-> ZONES[z]], PREFIXES)>>
    /\ all_tasks = all_tpus
    /\ all_results = << <<>> >>
    /\ remote = << <<>> >>
    /\ delete_results = <<>>
    /\ check_results = <<>>
    /\ summary = <<>>

\* The loop of collect_recent_reservations over files, from file i on:
\* [res, removed], the reservations and the files os.remove was called on.
RECURSIVE ScanAll(_, _, _, _)
ScanAll(files, i, now, res) ==
    IF i > Len(files) THEN [res |-> res, removed |-> {}]
    ELSE LET one  == ScanOne(files[i], now, res)
             rest == ScanAll(files, i + 1, now, one.res)
         IN  [res |-> rest.res,
              removed |-> rest.removed \cup (IF one.remove THEN {files[i]} ELSE {})]

\* The key under which a lease for the instance name is kept: the parts of
\* the name between underscores.
NameKey(name) == <<name>>

\* Mark without the test of the status: every result of an instance with a
\* reservation is marked.
Mark_AnyStatus(r, reservations) ==
    IF NameKey(r[2]) \in DOMAIN reservations
    THEN <<r[1], r[2], r[3], r[4],
           Message(r[5].text \o <<" reserve (if idle): ", reservations[NameKey(r[2])]>>,
                   r[5].users)>>
    ELSE r

\* Phase 2.5: the message of an idle instance with a reservation names its
\* holder.
Mark(r, reservations) ==
    IF r[4] = "IDLE" /\ NameKey(r[2]) \in DOMAIN reservations
    THEN <<r[1], r[2], r[3], r[4],
           Message(r[5].text \o <<" reserve (if idle): ", reservations[NameKey(r[2])]>>,
                   r[5].users)>>
    ELSE r

Marked(results, reservations) ==
    IF reservations = EmptyMap THEN results
    ELSE [i \in 1..Len(results) |-> Mark(results[i], reservations)]

\* CountOf with the timeouts left out of every count.
CountOf_NoTimeout(items, statuses) ==
    Cardinality({i \in 1..Len(items) : items[i][4] \in statuses \ {"TIMEOUT"}})

CountOf(items, statuses) == Cardinality({i \in 1..Len(items) : items[i][4] \in statuses})

\* f"{header} total {total}, idle {idle}, busy {busy}, bad {bad}"
GroupLine(header, total, idle, busy, bad) ==
    [kind |-> "group", header |-> header, total |-> total, idle |-> idle,
     busy |-> busy, bad |-> bad]

\* The loop over ordered_prefixes from entry idx on (idx counts from 1):
\* [lines, total, idle], the lines logged and what is added to total_all and
\* idle_all.
RECURSIVE SummaryFrom(_, _, _)
SummaryFrom(results, ordered, idx) ==
    IF idx > Len(ordered) THEN [lines |-> <<>>, total |-> 0, idle |-> 0]
    ELSE LET pfx   == ordered[idx]
             items == SelectSeq(results, LAMBDA r : r[1] = pfx)
             rest  == SummaryFrom(results, ordered, idx + 1)
             group == GroupLine(IF pfx = OTHER_PREFIX THEN "[OTHER]" ELSE pfx,
                                Len(items),
                                CountOf(items, {"IDLE"}),
                                CountOf(items, {"BUSY"}),
                                CountOf(items, {"ERROR", "TIMEOUT", "SSH_FAIL"}))
         IN  IF items = <<>> THEN rest
             ELSE [lines |-> (IF idx # 1 THEN <<[kind |-> "divider"]>> ELSE <<>>)
                                \o <<group>>
                                \o [i \in 1..Len(items) |-> [kind |-> "tpu", msg |-> items[i][5]]]
                                \o rest.lines,
                   total |-> Len(items) + rest.total,
                   idle |-> group.idle + rest.idle]

\* What the pass logs after the dispatch: the deletion summary, if there were
\* deletions, and the summary by prefix.
SummaryLines(deletes, results, prefixes) ==
    LET success == Cardinality({i \in 1..Len(deletes) : deletes[i][1] = "DELETE_SUCCESS"})
        ordered == IF \E i \in 1..Len(results) : results[i][1] = OTHER_PREFIX
                   THEN Append(prefixes, OTHER_PREFIX) ELSE prefixes
        groups  == SummaryFrom(results, ordered, 1)
    IN  (IF deletes # <<>>
         THEN <<[kind |-> "delete", success |-> success, failed |-> Len(deletes) - success]>>
         ELSE <<>>)
        \o <<[kind |-> "banner"]>>
        \o groups.lines
        \o <<[kind |-> "divider"], [kind |-> "all", total |-> groups.total, idle |-> groups.idle]>>

\* The lease directory as the pass may find it: leases of two users for the
\* same instance, taken at time 0.
AuditDirs ==
    SUBSET { <<"alice", "llq-7", "2026-01-01", "00-00-00">>,
             <<"bob", "llq-7", "2026-01-01", "00-00-00">> }

\* The instants at which the pass may scan it: the leases have just not
\* expired, or have just expired.
AuditInstants == {SecondsOf("2026-01-01", "00-30-00"), SecondsOf("2026-01-01", "00-30-01")}

\* The second pool has returned: the results are split by position, the lease
\* directory, as other processes have left it, is scanned once at time now
\* (listed = FALSE: it cannot be listed, and what it holds plays no part),
\* the idle instances with a reservation are marked and the summary is
\* logged.
Finish ==
    /\ apc = "dispatch"
    /\ \A i \in 1..Len(all_results) : all_results[i] # <<>>
    /\ \E d \in AuditDirs, now \in AuditInstants, listed \in BOOLEAN :
       \E files \in Orders(d) :
          /\ ~listed => d = {}
          /\ LET deletes == SubSeq(all_results, 1, Len(all_preempted))
                 checks  == SubSeq(all_results, Len(all_preempted) + 1, Len(all_results))
                 scan    == IF listed THEN ScanAll(files, 1, get_lock_time_str(now), EmptyMap)
                            ELSE [res |-> EmptyMap, removed |-> {}]
             IN  /\ dir' = d \ scan.removed
                 /\ sres' = scan.res
                 /\ delete_results' = deletes
                 /\ check_results' = Marked(checks, scan.res)
                 /\ summary' = SummaryLines(deletes, check_results', PREFIXES)
    /\ apc' = "done"
    /\ UNCHANGED <<clock, ticks, wrapVars, toolVars, scans, purged, spc, snow, sfiles, sidx, listing,
                   zone_results, all_tpus, all_preempted, all_tasks, all_results, remote>>

\* ----------------------------------------------------------- delete_idle.py

TYPE_ALIASES ==
    ("v5-8" :> "v5p-8") @@
    ("v6-8" :> "v6e-8") @@
    ("v5-16" :> "v5e-16") @@
    ("v6-32" :> "v6e-32") @@
    ("v6-64" :> "v6e-64") @@
    ("v5-64" :> "v5p-64") @@
    ("v6-128" :> "v6e-128") @@
    ("v5-128" :> "v5p-128")

\* s.lower(), for the words typed to this program
Lower(w) == CASE w = "V6E-8" -> "v6e-8"
              [] w = "Y" -> "y"
              [] OTHER -> w

\* The characters of a run of tokens.
RECURSIVE CharsOf(_)
CharsOf(run) ==
    IF run = <<>> THEN <<>>
    ELSE (IF Head(run) \in DOMAIN Spell THEN Spell[Head(run)] ELSE <<Head(run)>>)
         \o CharsOf(Tail(run))

\* sub in text, for a string sub and a run of tokens text
InText(sub, text) ==
    LET str == CharsOf(text)
    IN  \E i \in 1..(Len(str) - Len(Spell[sub]) + 1) :
            SubSeq(str, i, i + Len(Spell[sub]) - 1) = Spell[sub]

\* The escape sequences of IdleOnlyFormatter.
GREEN == "ESC[32m"

RESET == "ESC[0m"

\* The first position from k on that holds no blank; Len(line) + 1 if none.
SkipSpaces(line, k) ==
    CHOOSE j \in k..(Len(line) + 1) :
        /\ j = Len(line) + 1 \/ line[j] # " "
        /\ \A h \in k..(j - 1) : line[h] = " "

\* The last position of the run without blanks that starts at k; k - 1 if the
\* run is empty.
WordEnd(line, k) ==
    (CHOOSE j \in k..(Len(line) + 1) :
        /\ j = Len(line) + 1 \/ line[j] = " "
        /\ \A h \in k..(j - 1) : line[h] # " ") - 1

\* IdleOnlyFormatter.format from token i on: every "[IDLE]", blanks and the
\* word after them become the marker and the word in green, one blank between.
RECURSIVE Coloured(_, _)
Coloured(msg, i) ==
    IF i > Len(msg) THEN <<>>
    ELSE LET k == SkipSpaces(msg, i + 1)
             e == WordEnd(msg, k)
         IN  IF msg[i] = "[IDLE]" /\ k > i + 1 /\ e >= k
             THEN <<GREEN, "[IDLE]", RESET, " ", GREEN>> \o SubSeq(msg, k, e)
                  \o <<RESET>> \o Coloured(msg, e + 1)
             ELSE <<msg[i]>> \o Coloured(msg, i + 1)

\* _strip_ansi(text)
strip_ansi(text) == SelectSeq(text, LAMBDA t : t \notin {GREEN, RESET})

\* pattern.match at token i of \[IDLE\]\s+(\S+)\s+\(([^)]+)\): [ok, name, zone]
MatchAt(line, i) ==
    LET k == SkipSpaces(line, i + 1)
        e == WordEnd(line, k)
        o == SkipSpaces(line, e + 1)
        c == IF \E j \in (o + 1)..Len(line) : line[j] = ")"
             THEN CHOOSE j \in (o + 1)..Len(line) :
                      line[j] = ")" /\ \A h \in (o + 1)..(j - 1) : line[h] # ")"
             ELSE 0
    IN  IF /\ line[i] = "[IDLE]"
           /\ k > i + 1 /\ e >= k
           /\ o > e + 1 /\ o <= Len(line) /\ line[o] = "("
           /\ c > o + 1
        THEN [ok |-> TRUE, name |-> SubSeq(line, k, e), zone |-> SubSeq(line, o + 1, c - 1)]
        ELSE [ok |-> FALSE, name |-> <<>>, zone |-> <<>>]

\* pattern.search(clean): the leftmost match
Search(line) ==
    LET hits == {i \in 1..Len(line) : MatchAt(line, i).ok}
    IN  IF hits = {} THEN [ok |-> FALSE, name |-> <<>>, zone |-> <<>>]
        ELSE MatchAt(line, CHOOSE i \in hits : \A j \in hits : i <= j)

\* text.splitlines()
RECURSIVE splitlines(_)
splitlines(text) ==
    LET nl == IndexOf(text, NL)
    IN  IF text = <<>> THEN <<>>
        ELSE IF nl = 0 THEN <<text>>
        ELSE <<SubSeq(text, 1, nl - 1)>> \o splitlines(SubSeq(text, nl + 1, Len(text)))

\* The loop of main() over out.splitlines(), from line i on: idle_list.
RECURSIVE Candidates(_, _, _)
Candidates(lines, i, tpu_type) ==
    IF i > Len(lines) THEN <<>>
    ELSE LET m    == Search(strip_ansi(lines[i]))
             rest == Candidates(lines, i + 1, tpu_type)
         IN  IF ~m.ok THEN rest
             ELSE IF InText("nopre", m.name) THEN rest
             ELSE IF InText(tpu_type, m.name)
                  THEN <<[name |-> m.name, zone |-> m.zone]>> \o rest
             ELSE rest

\* The messages master.py logs for its results (lines 271-309, 389) and in
\* its summary, by tokens.  The text after "[SSH_FAIL] name:" is the stderr
\* of the ssh call, whatever the instance or ssh wrote there.  The names here
\* hold no entry of PREFIXES, so their tag is the sentinel.
IdleMsg(tag, name, zone) == <<tag, " ", "[IDLE]", " ", name, " ", "(", zone, ")">>

ReservedMsg(tag, name, zone, user) ==
    IdleMsg(tag, name, zone) \o <<" ", "reserve", " ", "(if", " ", "idle):", " ", user>>

BusyMsg(tag, name, zone) ==
    <<tag, " ", "[BUSY]", " ", name, " ", "(", zone, ")", " ", "users=['alice']">>

SshFailMsg(tag, name, stderr) == <<tag, " ", "[SSH_FAIL]", " ", name, ":", " ">> \o stderr

TimeoutMsg(tag, name) == <<tag, " ", "[TIMEOUT]", " ", name>>

ErrorMsg(tag, name) ==
    <<tag, " ", "[ERROR]", " ", name, ":", " ", "no", " ", "CHECK_RES", " ", "in", " ", "output">>

AuditMessages ==
    LET z == "us-central1-a"
    IN  { IdleMsg("[__OTHER__]", "a-v5p-8", z),
          IdleMsg("[__OTHER__]", "nopre-v5p-8", z),
          IdleMsg("[__OTHER__]", "b-v6e-8", z),
          ReservedMsg("[__OTHER__]", "a-v5p-8", z, "alice"),
          BusyMsg("[__OTHER__]", "a-v5p-8", z),
          SshFailMsg("[__OTHER__]", "a-v5p-8", <<"Connection", " ", "refused">>),
          SshFailMsg("[__OTHER__]", "b-v6e-8", <<"[IDLE]", " ", "b-v6e-8", " ", "(", z, ")">>),
          TimeoutMsg("[__OTHER__]", "a-v5p-8"),
          ErrorMsg("[__OTHER__]", "b-v6e-8"),
          <<"[ALL]", " ", "total", " ", "1,", " ", "idle", " ", "1">> }

\* "%(asctime)s [%(levelname)s] " of the log format
Stamp == <<"2026-11-01 00:00:00,000", " ", "[INFO]", " ">>

\* A message reports a verdict on the instance named after its status.
StatusTokens == {"[IDLE]", "[BUSY]", "[SSH_FAIL]", "[TIMEOUT]", "[ERROR]"}

IsReport(msg) == Len(msg) >= 5 /\ msg[3] \in StatusTokens

\* The console lines of a pass, as captured: every instance is reported once.
RECURSIVE ConsoleText(_)
ConsoleText(msgs) ==
    IF msgs = <<>> THEN <<>>
    ELSE Coloured(Stamp \o Head(msgs), 1) \o <<NL>> \o ConsoleText(Tail(msgs))

AuditOutputs ==
    {ConsoleText(msgs) : msgs \in
        {l \in SeqsUpTo(AuditMessages, MaxAuditLines) :
            \A i, j \in 1..Len(l) :
                (IsReport(l[i]) /\ IsReport(l[j]) /\ l[i][5] = l[j][5]) => i = j}}

\* sys.argv[1:]: nothing, or one word with the blanks typed around it.
Args == {<<>>, <<<<"v5p-8">>>>, <<<<"v5-8">>>>, <<<<" ", "V6E-8", " ">>>>, <<<<" ">>>>}

\* What the user may type at the prompt.
Answers == {<<"y">>, <<"yes">>, <<" ", "Y", " ">>, <<"n">>, <<" ">>, <<"yeah">>}

\* No invocation of delete_idle.py.
DeleteIdle ==
    /\ dpc = "off"
    /\ dargv = <<>>
    /\ dtype = ""
    /\ dout = <<>>
    /\ idle_list = <<>>
    /\ dconfirm = ""
    /\ dresults = <<>>
    /\ dexit = -1

\* delete_idle.py has been started with some arguments.
DeleteStart ==
    /\ dpc = "start"
    /\ dargv \in Args
    /\ dtype = ""
    /\ dout = <<>>
    /\ idle_list = <<>>
    /\ dconfirm = ""
    /\ dresults = <<>>
    /\ dexit = -1

\* main() up to the call of wrap_master.py: usage and exit 1 without an
\* argument, else tpu_type from the argument.  wrap_master.py is taken to be
\* in its place next to delete_idle.py.
DArgs ==
    /\ dpc = "start"
    /\ IF dargv = <<>>
       THEN /\ dpc' = "done"
            /\ dexit' = 1
            /\ UNCHANGED dtype
       ELSE LET raw_type == Lower(Strip(dargv[1]))
            IN  /\ dtype' = IF raw_type \in DOMAIN TYPE_ALIASES
                            THEN TYPE_ALIASES[raw_type] ELSE raw_type
                /\ dpc' = "run"
                /\ UNCHANGED dexit
    /\ UNCHANGED <<clock, ticks, wrapVars, leaseVars, auditVars, tagVars,
                   dargv, dout, idle_list, dconfirm, dresults>>

\* subprocess.run([sys.executable, wrap_master], ...): the invocation of
\* wrap_master.py, without a --cache argument, is invocation 1 of the wrapper.
DRun == dpc = "run" /\ Invoke(1, "true")

\* The steps of that invocation.
DWrapper == dpc = "run" /\ (ReadExists(1) \/ ReadOpen(1) \/ ReadFinish(1))

\* except subprocess.TimeoutExpired: "timed out", sys.exit(1)
DTimeout ==
    /\ dpc = "run"
    /\ wpc[1] \notin {"idle", "done"}
    /\ dpc' = "done"
    /\ dexit' = 1
    /\ UNCHANGED <<clock, ticks, wrapVars, leaseVars, auditVars, tagVars,
                   dargv, dtype, dout, idle_list, dconfirm, dresults>>

\* What the invocation of wrap_master.py left on its stderr (_log).
WrapStderr(p) ==
    IF wexit[p] = 0
    THEN <<"[wrap]", " ", "Using", " ", "cached", " ", "output", " ", "(delayed", " ", "by", " ">>
         \o Digits(wage[p]) \o <<"s)", NL>>
    ELSE <<"[wrap]", " ", "No", " ", "cache", " ", "available.", NL>>

\* out = result.stdout + result.stderr, the loop over its lines, and the exit
\* when nothing was selected.  result.returncode is not looked at.
DCollect ==
    /\ dpc = "run"
    /\ wpc[1] = "done"
    /\ dout' = wprinted[1] \o WrapStderr(1)
    /\ idle_list' = Candidates(splitlines(dout'), 1, dtype)
    /\ IF idle_list' = <<>>
       THEN dpc' = "done" /\ dexit' = 0
       ELSE dpc' = "confirm" /\ UNCHANGED dexit
    /\ UNCHANGED <<clock, ticks, wrapVars, leaseVars, auditVars, tagVars,
                   dargv, dtype, dconfirm, dresults>>

\* confirm = input(...).strip().lower(); anything but "y" and "yes" aborts.
DConfirm(answer) ==
    /\ dpc = "confirm"
    /\ dconfirm' = Lower(Strip(answer))
    /\ IF dconfirm' # "y" /\ dconfirm' # "yes"
       THEN dpc' = "done" /\ dexit' = 0
       ELSE dpc' = "deleting" /\ UNCHANGED dexit
    /\ UNCHANGED <<clock, ticks, wrapVars, leaseVars, auditVars, tagVars,
                   dargv, dtype, dout, idle_list, dresults>>

\* pool.map(_delete_one, idle_list): one delete command for every entry, each
\* ending "ok", "timeout" or "fail".
DDelete ==
    /\ dpc = "deleting"
    /\ \E ends \in [1..Len(idle_list) -> {"ok", "timeout", "fail"}] :
          dresults' = [i \in 1..Len(idle_list) |->
                          <<ends[i], idle_list[i].name, idle_list[i].zone>>]
    /\ dpc' = "done"
    /\ dexit' = 0
    /\ UNCHANGED <<clock, ticks, wrapVars, leaseVars, auditVars, tagVars,
                   dargv, dtype, dout, idle_list, dconfirm>>

\* The other tools at rest.
ToolIdle == TagIdle /\ DeleteIdle

\* ---------------------------------------------------------- specifications

\* Concurrent invocations of wrap_master.py.
InitWrap ==
    /\ clock = 0
    /\ ticks = 0
    /\ ToolIdle
    /\ LeaseIdle
    /\ AuditIdle
    /\ NoInvocation
    /\ \E had \in BOOLEAN :
          /\ lockFileExists = had
          /\ cacheExists = had
          /\ cacheContent = IF had THEN EarlierEntry ELSE <<>>
          /\ committed = cacheContent

NextWrap ==
    \/ \E p \in Procs, m \in {"true", "false"} : Invoke(p, m)
    \/ \E p \in Procs : EnsureLockFile(p)
    \/ \E p \in Procs : FlockCall(p)
    \/ \E p \in Procs : FlockWake(p)
    \/ \E p \in Procs : MasterStart(p)
    \/ \E p \in Procs : MasterEnd(p)
    \/ \E p \in Procs : CacheOpen(p)
    \/ \E p \in Procs : CacheWrite(p)
    \/ \E p \in Procs : Emit(p)
    \/ \E p \in Procs : Unlock(p)
    \/ \E p \in Procs : ReadExists(p)
    \/ \E p \in Procs : ReadOpen(p)
    \/ \E p \in Procs : ReadFinish(p)
    \/ Tick

SpecWrap == InitWrap /\ [][NextWrap]_vars

\* Concurrent refresh invocations with all their exit paths.  Every
\* invocation that has started goes on running, every pass that has started
\* ends, and a free lock with callers blocked on it is granted to one of them;
\* nothing is assumed about interrupts, failures of the cache write and the
\* start of invocations.
NextRelease ==
    \/ \E p \in Procs : Invoke(p, "false")
    \/ \E p \in Procs : EnsureLockFile(p)
    \/ \E p \in Procs : FlockCall(p)
    \/ \E p \in Procs : FlockWake(p)
    \/ \E p \in Procs : MasterStart(p)
    \/ \E p \in Procs : MasterEnd(p)
    \/ \E p \in Procs : CacheOpen(p)
    \/ \E p \in Procs : CacheWrite(p)
    \/ \E p \in Procs : CacheFail(p)
    \/ \E p \in Procs : Emit(p)
    \/ \E p \in Procs : Interrupt(p)
    \/ \E p \in Procs : Unlock(p)

FairRelease ==
    /\ \A p \in Procs :
          /\ WF_vars(EnsureLockFile(p))
          /\ WF_vars(FlockCall(p))
          /\ WF_vars(MasterStart(p))
          /\ WF_vars(MasterEnd(p))
          /\ WF_vars(CacheOpen(p))
          /\ WF_vars(CacheWrite(p))
          /\ WF_vars(Emit(p))
          /\ WF_vars(Unlock(p))
    /\ WF_vars(\E p \in Procs : FlockWake(p))

SpecRelease == InitWrap /\ [][NextRelease]_vars /\ FairRelease

\* Concurrent scans of the lease directory.
InitLease ==
    /\ clock = 0
    /\ ticks = 0
    /\ ToolIdle
    /\ WrapIdle
    /\ AuditIdle
    /\ \E d \in SUBSET InitFiles : Cardinality(d) <= MaxFiles /\ dir = d
    /\ NoScan

NextLease ==
    \/ ScanStart
    \/ ScanListFail
    \/ ScanFile
    \/ ScanReturn
    \/ \E u \in Users, vm \in VmNames : Zhan(u, vm)
    \/ \E f \in dir : RivalRemove(f)
    \/ \E tpu \in ReservedQueries : CheckReserved(tpu)
    \/ TickLease

SpecLease == InitLease /\ [][NextLease]_vars

\* One audit pass of master.py.
InitAudit ==
    /\ clock = 0
    /\ ticks = 0
    /\ ToolIdle
    /\ WrapIdle
    /\ LeaseIdle
    /\ AuditStart

NextAudit ==
    \/ \E z \in Zones : ListZone(z)
    \/ \E z \in Zones : ListHang(z)
    \/ Gather
    \/ StartPool
    \/ \E i \in 1..MaxFleet : ProcessTask(i)
    \/ Finish

SpecAudit == InitAudit /\ [][NextAudit]_vars

\* Calls of assign_prefix over priority lists and names.
InitTag ==
    /\ clock = 0
    /\ ticks = 0
    /\ WrapIdle
    /\ LeaseIdle
    /\ AuditIdle
    /\ DeleteIdle
    /\ TagStart

NextTag == \E i, j \in 1..MaxPrefixes : Reorder(i, j)

SpecTag == InitTag /\ [][NextTag]_vars

\* One invocation of delete_idle.py, over the cache entries an earlier pass
\* may have left at time 0.
InitDelete ==
    /\ clock = 0
    /\ ticks = 0
    /\ LeaseIdle
    /\ AuditIdle
    /\ TagIdle
    /\ NoInvocation
    /\ DeleteStart
    /\ \E had \in BOOLEAN :
          /\ lockFileExists = had
          /\ cacheExists = had
          /\ cacheContent \in IF had THEN {CacheText(0, text) : text \in AuditOutputs}
                                     ELSE {<<>>}
          /\ committed = cacheContent

NextDelete ==
    \/ DArgs
    \/ DRun
    \/ DWrapper
    \/ DTimeout
    \/ DCollect
    \/ \E answer \in Answers : DConfirm(answer)
    \/ DDelete
    \/ Tick

SpecDelete == InitDelete /\ [][NextDelete]_vars

\* One probe, over all it may read from the instance.
InitProbe ==
    /\ clock = 0
    /\ ticks = 0
    /\ ToolIdle
    /\ WrapIdle
    /\ LeaseIdle
    /\ ProbeStart

NextProbe == ProbeAny

SpecProbe == InitProbe /\ [][NextProbe]_vars

\* ------------------------------------------------ wrap_master.py: properties

\* Between "Lock acquired." and "Lock released.".
HoldsLock(p) == wpc[p] \in {"locked", "running", "write", "writing", "emit", "finally"}

\* C1: no two refresh invocations are between lock acquired and lock released
\* at the same instant, so no two master.py passes run at the same time.
C1_MutualExclusion ==
    \A p, q \in Procs : p # q => ~(HoldsLock(p) /\ HoldsLock(q))

\* One invocation runs its pass while another is blocked in flock().
C1_Witness == \E p, q \in Procs : wpc[p] = "running" /\ wpc[q] = "blocked"

\* C2: an invocation with --cache true that returns the cached payload does so
\* only for an entry younger than CACHE_DURATION.
C2_CachedOnlyWhenFresh ==
    \A p \in Procs :
        (wmode[p] = "true" /\ wpc[p] = "done" /\ wexit[p] = 0) => wage[p] < CACHE_DURATION

\* C3: an invocation whose flock() call blocked behind a holder running its
\* pass finishes without having run a pass of its own.
C3_OnePassForWaiters ==
    \A p \in Procs : (wpc[p] = "done" /\ blockedOn[p] # 0) => ~ranPass[p]

\* The complete entries a reader may see: the one last written completely and
\* the one being written.
WholeEntries ==
    {committed} \cup {cacheContent \o wpending[q] : q \in {r \in Procs : wpc[r] = "writing"}}

\* C4: a read of the cache file made while a complete entry exists returns a
\* complete entry, the previous one or the new one.
C4_AtomicOverwrite ==
    [][\A p \in Procs :
          (wpc[p] = "read" /\ wpc'[p] = "parse" /\ committed # <<>>)
              => wobserved'[p] \in WholeEntries]_vars

\* ------------------------------------------------ lease directory: properties

\* The file name does not parse into owner, instance name and creation time.
Unparsable(file) ==
    \/ Len(file) < 4
    \/ <<file[Len(file) - 1], file[Len(file)]>> \notin (DOMAIN DateSpell) \X (DOMAIN TimeSpell)

\* The lease file is one for instance vm held by user, not expired at now.
ValidLeaseOf(file, vm, user, now) ==
    /\ ~Unparsable(file)
    /\ ~ExpiredAt(file, now)
    /\ file[1] = user
    /\ SubSeq(file, 2, Len(file) - 2) = vm

\* C5: when a scan has returned, every lease it saw with an age above
\* LOCK_EXPIRE_SECONDS is gone from the directory and every holder it returns
\* comes from a lease that was not expired; a lease a scan found expired is
\* never in the directory again, so no later scan sees it.
C5_LeaseTTL ==
    /\ spc = "returned" =>
          /\ \A f \in Range(sfiles) : ExpiredAt(f, snow) => f \notin dir
          /\ \A vm \in DOMAIN sres :
                \E f \in Range(sfiles) : ValidLeaseOf(f, vm, sres[vm], snow)
    /\ \A f \in purged : f \notin dir

\* A scan has returned a holder although it saw an expired lease as well.
C5_Witness ==
    /\ spc = "returned"
    /\ sres # EmptyMap
    /\ \E f \in Range(sfiles) : ExpiredAt(f, snow)

\* C6: when a scan has returned, every file it saw whose name does not parse
\* is gone from the directory.
C6_MalformedCleanup ==
    spc = "returned" => \A f \in Range(sfiles) : Unparsable(f) => f \notin dir

\* ------------------------------------------------------ audit pass: properties

\* A line of a listing that is a record, its name and its state.
IsRecord(line) == Len(line) >= 2 /\ \E k \in 1..Len(line) : ~IsBlank(line[k])
RecName(line) == Strip(line[1])
RecState(line) == Strip(line[2])

\* The names of the listings, and among them the dev machines.
ListedNames == {RecName(line) : line \in {l \in LinePool : IsRecord(l)}}
DevMachines == {"kmh-tpuvm-v3-8-llq", "kmh-tpuvm-v4-8-12", "kmh-tpuvm-v4-8-4"}

\* The record is one the pass leaves out of the probes.
Excluded(line) ==
    \/ RecState(line) \in {"PREEMPTED", "TERMINATED", "CREATING", "DELETING", "REPAIRING", "STOPPED"}
    \/ RecName(line) = "kmh-tpuvm-v4-8-4"
    \/ RecName(line) \in DevMachines

\* The lines zone z listed (none if the call failed).
LinesOf(z) == IF listing[z][1].ok THEN listing[z][1].lines ELSE <<>>

\* Number of records named n that zone z listed and that are (not) excluded
\* and (not) preempted.
KeptCount(n, z) ==
    Cardinality({k \in 1..Len(LinesOf(z)) :
        IsRecord(LinesOf(z)[k]) /\ RecName(LinesOf(z)[k]) = n /\ ~Excluded(LinesOf(z)[k])})
PreemptedCount(n, z) ==
    Cardinality({k \in 1..Len(LinesOf(z)) :
        IsRecord(LinesOf(z)[k]) /\ RecName(LinesOf(z)[k]) = n
            /\ RecState(LinesOf(z)[k]) = "PREEMPTED"})

IsProbe(task) == "state" \notin DOMAIN task

\* Number of probe tasks, and of delete tasks, in tasks for instance n of zone z.
ProbeCount(tasks, n, z) ==
    Cardinality({i \in 1..Len(tasks) :
        IsProbe(tasks[i]) /\ tasks[i].name = n /\ tasks[i].zone = ZONES[z]})
DeleteCount(tasks, n, z) ==
    Cardinality({i \in 1..Len(tasks) :
        ~IsProbe(tasks[i]) /\ tasks[i].name = n /\ tasks[i].zone = ZONES[z]})

\* C7: once the task batch of the pass is made, it holds, for every instance
\* name and zone, no more probe tasks than the zone listed records of that
\* name that are not excluded (by a state of PREEMPTED, TERMINATED, CREATING,
\* DELETING, REPAIRING, STOPPED, by the name kmh-tpuvm-v4-8-4, or by being a dev
\* machine): no excluded record has a probe task.
C7_Exclusion ==
    apc = "tasks" =>
        \A z \in Zones, n \in ListedNames :
            ProbeCount(all_tasks, n, z) <= KeptCount(n, z)

\* A zone listed the same instance name once in an excluded state and once
\* ready, and the batch holds one probe task.
C7_Witness ==
    /\ apc = "tasks"
    /\ \E z \in Zones :
          /\ \E k \in 1..Len(LinesOf(z)) :
                IsRecord(LinesOf(z)[k]) /\ RecName(LinesOf(z)[k]) = "misc-3"
                    /\ RecState(LinesOf(z)[k]) = "TERMINATED"
          /\ KeptCount("misc-3", z) = 1
          /\ ProbeCount(all_tasks, "misc-3", z) = 1
    /\ Len(all_tasks) = 1

Verdicts == {"IDLE", "BUSY", "SSH_FAIL", "TIMEOUT", "ERROR"}

ProbeTasks == {i \in 1..Len(all_tasks) : IsProbe(all_tasks[i])}

\* C8: during and after the dispatch, every probe task has had at most one
\* remote call, has a result exactly if the call was made, whatever the call
\* did, and the result is for the task's instance with a status among IDLE,
\* BUSY, SSH_FAIL, TIMEOUT, ERROR; when the pass is done there are as many
\* probe results as probe tasks, the j-th for the j-th probed instance.
C8_VerdictTotality ==
    /\ apc \in {"dispatch", "done"} =>
          \A i \in ProbeTasks :
             /\ Len(remote[i]) <= 1
             /\ (all_results[i] # <<>>) <=> (Len(remote[i]) = 1)
             /\ all_results[i] # <<>> =>
                   /\ Len(all_results[i]) = 5
                   /\ all_results[i][2] = all_tasks[i].name
                   /\ all_results[i][3] = all_tasks[i].zone
                   /\ all_results[i][4] \in Verdicts
    /\ apc = "done" =>
          /\ Len(check_results) = Cardinality(ProbeTasks)
          /\ Len(check_results) = Len(all_tpus)
          /\ \A j \in 1..Len(check_results) :
                /\ check_results[j][2] = all_tpus[j].name
                /\ check_results[j][3] = all_tpus[j].zone
                /\ check_results[j][4] \in Verdicts

\* A pass is done in which one probe ran into its timeout and the call of
\* another raised an exception.
C8_Witness ==
    /\ apc = "done"
    /\ \E i, j \in ProbeTasks :
          /\ remote[i][1].kind = "timeout"
          /\ remote[j][1].kind = "exception"
          /\ all_results[i][4] = "TIMEOUT"
          /\ all_results[j][4] = "ERROR"
    /\ Len(check_results) = 2

\* What a line of the remote command says, read off its tokens: it carries
\* the marker; after the marker it says IDLE and nothing else; it says BUSY.
Carries(line) == \E k \in 1..Len(line) : line[k] = "CHECK_RES:"
AfterMarker(line) ==
    LET k    == CHOOSE j \in 1..Len(line) : line[j] = "CHECK_RES:" /\ \A h \in 1..(j - 1) : line[h] # "CHECK_RES:"
        rest == SubSeq(line, k + 1, Len(line))
        stop == IF \E j \in 1..Len(rest) : rest[j] = "CHECK_RES:"
                THEN (CHOOSE j \in 1..Len(rest) : rest[j] = "CHECK_RES:" /\ \A h \in 1..(j - 1) : rest[h] # "CHECK_RES:") - 1
                ELSE Len(rest)
    IN  SelectSeq(SubSeq(rest, 1, stop), LAMBDA t : t # " ")
SignalsIdle(line) == Carries(line) /\ AfterMarker(line) = <<"IDLE">>
SignalsBusy(line) == Carries(line) /\ AfterMarker(line) # <<>> /\ AfterMarker(line)[1] = "BUSY"
ReportedUsers(line) ==
    {<<AfterMarker(line)[k + 1]>> : k \in {j \in 1..(Len(AfterMarker(line)) - 1) : AfterMarker(line)[j] = "USER:"}}

\* C9: for a remote call that returned with exit status 0, the verdict is
\* ERROR exactly if no line carries the marker, BUSY exactly if some marker
\* line signals BUSY, then with the users of all BUSY lines, and IDLE only if
\* every marker line signals IDLE.
C9_ProbeAggregation ==
    \A i \in DOMAIN all_results :
        (apc = "dispatch" /\ all_results[i] # <<>> /\ IsProbe(all_tasks[i])
            /\ remote[i][1].kind = "exit" /\ remote[i][1].returncode = 0) =>
        LET lines  == remote[i][1].stdout
            status == all_results[i][4]
        IN  /\ (status = "ERROR") <=> (\A k \in 1..Len(lines) : ~Carries(lines[k]))
            /\ (status = "BUSY") <=> (\E k \in 1..Len(lines) : SignalsBusy(lines[k]))
            /\ status = "BUSY" =>
                  all_results[i][5].users =
                      UNION {ReportedUsers(lines[k]) : k \in {j \in 1..Len(lines) : SignalsBusy(lines[j])}}
            /\ status = "IDLE" =>
                  \A k \in 1..Len(lines) : Carries(lines[k]) => SignalsIdle(lines[k])

\* Something was found in the zones whose listing succeeded.
SomethingFound ==
    \E z \in Zones, n \in ListedNames : KeptCount(n, z) > 0 \/ PreemptedCount(n, z) > 0

\* C10 (amended): when the first pool has returned, a zone whose listing call
\* failed has given two empty lists, the active and the preempted records of
\* the pass are those of the zones whose listing succeeded, and the pass goes
\* on to the dispatch exactly if they found something; it ends without
\* dispatch and summary if nothing was found.
C10_ZoneIsolation ==
    apc \in {"tasks", "nothing"} =>
        /\ \A z \in Zones : ~listing[z][1].ok =>
              zone_results[z][1] = [active |-> <<>>, preempted |-> <<>>]
        /\ apc = "tasks" =>
              \A z \in Zones, n \in ListedNames :
                 /\ ProbeCount(all_tpus, n, z) = KeptCount(n, z)
                 /\ DeleteCount(all_preempted, n, z) = PreemptedCount(n, z)
        /\ (apc = "tasks") <=> SomethingFound

\* The listing of one zone failed, another zone listed an instance, and the
\* pass has made the task for it.
C10_Witness ==
    /\ apc = "tasks"
    /\ \E z1, z2 \in Zones :
          /\ ~listing[z1][1].ok
          /\ listing[z2][1].ok
          /\ KeptCount("llq-7", z2) = 1
          /\ ProbeCount(all_tasks, "llq-7", z2) = 1

\* C10 as stated: whenever the listing call failed for some zones, the pass
\* goes on to dispatch and summary.
C10_AlwaysContinues ==
    ~(apc = "nothing" /\ \E z \in Zones : ~listing[z][1].ok)

\* The ownership tags, and the header under which the summary shows each.
Tags == Range(PREFIXES) \cup {OTHER_PREFIX}
HeaderOf(tag) == IF tag = OTHER_PREFIX THEN "[OTHER]" ELSE tag

\* The positions of the group lines of the summary, and of those of a tag.
GroupsAt == {k \in 1..Len(summary) : summary[k].kind = "group"}
GroupsOf(tag) == {k \in GroupsAt : summary[k].header = HeaderOf(tag)}

\* Number of probe results with the tag, and with one of the statuses.
TaggedCount(tag) == Cardinality({j \in 1..Len(check_results) : check_results[j][1] = tag})
StatusCount(statuses) == Cardinality({j \in 1..Len(check_results) : check_results[j][4] \in statuses})

\* C11: in a pass that has logged its summary, every group line has
\* total = idle + busy + bad; a tag has one group line, with as total the
\* number of probe results of that tag, exactly if it has results, so every
\* result is counted under its tag and no other; the group of OTHER comes
\* after all others; and the last line is [ALL] with as total the number of
\* probed instances and as idle the number of IDLE verdicts.
C11_SummaryAccounting ==
    apc = "done" =>
        /\ \A k \in GroupsAt :
              summary[k].total = summary[k].idle + summary[k].busy + summary[k].bad
        /\ \A tag \in Tags :
              /\ Cardinality(GroupsOf(tag)) = (IF TaggedCount(tag) > 0 THEN 1 ELSE 0)
              /\ \A k \in GroupsOf(tag) : summary[k].total = TaggedCount(tag)
        /\ \A k \in GroupsOf(OTHER_PREFIX) : \A h \in GroupsAt : h <= k
        /\ summary[Len(summary)].kind = "all"
        /\ summary[Len(summary)].total = Len(all_tpus)
        /\ summary[Len(summary)].total = Len(check_results)
        /\ summary[Len(summary)].idle = StatusCount({"IDLE"})

\* A pass has logged the summary of one idle instance of llq and one
\* instance of no tag whose probe went wrong.
C11_Witness ==
    /\ apc = "done"
    /\ Cardinality(GroupsAt) = 2
    /\ \E k \in GroupsOf("llq") : summary[k].idle = 1 /\ summary[k].total = 1
    /\ \E k \in GroupsOf(OTHER_PREFIX) : summary[k].bad = 1 /\ summary[k].total = 1
    /\ summary[Len(summary)].total = 2
    /\ summary[Len(summary)].idle = 1

\* C12: every external call of a pass that has been started has ended in a
\* result for its own task, also when the external operation never returns:
\* no worker of the first pool is left without the lists of its zone, and no
\* worker of the second pool without the result of its task, so that the pass
\* can go on.
C12_CallsBounded ==
    /\ apc = "listing" => \A z \in Zones : listing[z] # <<>> => zone_results[z] # <<>>
    /\ apc = "dispatch" => \A i \in 1..Len(all_tasks) : remote[i] # <<>> => all_results[i] # <<>>

\* ------------------------------------------- wrap_master.py: more properties

\* The texts a pass may leave as its output, and the instants of the clock.
PassOutputs == {Combine(res) : res \in PassResults} \cup {<<"e", NL>>}
Instants == {a + b * CACHE_DURATION : a \in 0..MaxTicks, b \in 0..MaxTicks}

\* C13: when a cached read ends that has read the entry {t, X} as a refresh
\* invocation last wrote it completely, and does so before t + CACHE_DURATION,
\* it exits with status 0, has written exactly X to its stdout, whether X is
\* empty or holds newlines, and reports the age clock - t, which is below
\* CACHE_DURATION.
C13_CacheRoundTrip ==
    [][\A p \in Procs :
          (wpc[p] = "parse" /\ wpc'[p] = "done" /\ wobserved[p] = committed) =>
             \A t \in Instants, X \in PassOutputs :
                (wobserved[p] = CacheText(t, X) /\ clock < t + CACHE_DURATION)
                => /\ wexit'[p] = 0
                   /\ wprinted'[p] = X
                   /\ wage'[p] = clock - t
                   /\ wage'[p] < CACHE_DURATION]_vars

\* A cached read, one second after the pass started whose output it reads,
\* has written that output, which holds a newline, to its stdout.
C13_Witness ==
    \E p, q \in Procs :
        /\ wmode[p] = "true"
        /\ wpc[p] = "done"
        /\ wexit[p] = 0
        /\ wage[p] = 1
        /\ wprinted[p] = <<"o", "a", NL, "b">>
        /\ ranPass[q]
        /\ committed = CacheText(clock - 1, wprinted[p])


\* ------------------------------------------------- assign_prefix: properties

\* The entries of the list that are substrings of the name, in their order.
Matching(prefixes, name) == SelectSeq(prefixes, LAMBDA e : Contains(e, name))

\* The returned tag is the first entry that is a substring of the name, the
\* sentinel if there is none.
FirstMatchWins ==
    LET hits == {i \in 1..Len(tprefixes) : Contains(tprefixes[i], tname)}
    IN  IF hits = {} THEN ttag = OTHER_PREFIX
        ELSE \E i \in hits : ttag = tprefixes[i] /\ \A j \in hits : i <= j

\* C14: assign_prefix returns the first entry of the priority list that is a
\* substring of the name, the OTHER sentinel if none is; a re-ordering of the
\* list that keeps the relative order of the entries that are substrings of
\* the name leaves the returned tag as it was.
C14_TagDeterminism ==
    /\ []FirstMatchWins
    /\ [][Matching(tprefixes', tname) = Matching(tprefixes, tname) => ttag' = ttag]_vars

\* Two entries match, an entry that does not match stands before them, and
\* the first of the two is returned.
C14_Witness ==
    /\ tname = "keya-llq-1"
    /\ tprefixes = <<"dmy", "llq", "keya">>
    /\ ttag = "llq"


\* ------------------------------------------------- delete_idle.py: properties

\* The messages of the lines delete_idle.py read, without colours and stamps.
ReadMessages ==
    LET lines == splitlines(dout)
    IN  {SubSeq(strip_ansi(lines[i]), Len(Stamp) + 1, Len(strip_ansi(lines[i]))) :
            i \in 1..Len(lines)}

\* The instances for which a delete command was issued: <<name, zone>>.
Deleted == {<<dresults[k][2], dresults[k][3]>> : k \in 1..Len(dresults)}

\* No delete command without the answer "y" or "yes".
DeletesConfirmed == dresults # <<>> => dconfirm \in {"y", "yes"}

\* Every deleted name contains the type and does not contain "nopre".
DeletesFiltered ==
    \A d \in Deleted : InText(dtype, d[1]) /\ ~InText("nopre", d[1])

\* Every deleted instance is one the output reports IDLE, in that zone.
DeletesReportedIdle ==
    \A d \in Deleted : \E msg \in ReadMessages :
        /\ Len(msg) >= 9
        /\ msg[3] = "[IDLE]"
        /\ <<msg[5]>> = d[1]
        /\ msg[7] = "(" /\ <<msg[8]>> = d[2] /\ msg[9] = ")"

\* No deleted instance is one the output reports with another status.
DeletesNoneOther ==
    \A d \in Deleted : \A msg \in ReadMessages :
        (IsReport(msg) /\ msg[3] # "[IDLE]") => <<msg[5]>> # d[1]

\* C15: delete_idle.py issues no delete command unless the answer to the
\* prompt is "y" or "yes"; every delete it issues is for a (name, zone) of a
\* line reporting IDLE whose name contains the type and not "nopre"; an
\* instance reported BUSY, SSH_FAIL, TIMEOUT or ERROR is never deleted.
C15_DeletesOnlyConfirmedIdle ==
    /\ DeletesConfirmed
    /\ DeletesFiltered
    /\ DeletesReportedIdle
    /\ DeletesNoneOther

\* C16: the lines from which delete_idle.py selects what to delete come from
\* a pass run during the invocation of delete_idle.py, not from the cache
\* entry of an earlier pass.
C16_SelectsFromCurrentPass ==
    idle_list # <<>> => \E p \in Procs : ranPass[p]


\* ------------------------------------------------ audit pass: more properties

DeleteStatuses == {"DELETE_SUCCESS", "DELETE_TIMEOUT", "DELETE_FAIL"}

\* r is a result of the delete handler for the record rec.
DeleteResultOf(r, rec) ==
    Len(r) = 3 /\ r[1] \in DeleteStatuses /\ r[2] = rec.name /\ r[3] = rec.zone

\* r is a result of the probe for the record rec.
ProbeResultOf(r, rec) ==
    /\ Len(r) = 5
    /\ r[1] = rec.prefix /\ r[2] = rec.name /\ r[3] = rec.zone
    /\ r[4] \in Verdicts

\* C17: the task batch is the delete tasks followed by the probe tasks; every
\* task is handled once, by the delete handler iff it carries a lifecycle
\* state; after the split by position the i-th delete result is that of the
\* i-th preempted record and the j-th probe result that of the j-th active
\* record, no result of one kind among those of the other.
C17_PositionCorrespondence ==
    /\ apc \in {"tasks", "dispatch", "done"} =>
          /\ all_tasks = all_preempted \o all_tpus
          /\ \A i \in 1..Len(all_tasks) :
                ("state" \in DOMAIN all_tasks[i]) <=> i <= Len(all_preempted)
    /\ apc \in {"dispatch", "done"} =>
          \A i \in 1..Len(all_tasks) :
             /\ Len(remote[i]) <= 1
             /\ remote[i] = <<>> <=> all_results[i] = <<>>
             /\ all_results[i] # <<>> =>
                   IF i <= Len(all_preempted)
                   THEN DeleteResultOf(all_results[i], all_preempted[i])
                   ELSE ProbeResultOf(all_results[i], all_tpus[i - Len(all_preempted)])
    /\ apc = "done" =>
          /\ \A i \in 1..Len(all_tasks) : Len(remote[i]) = 1
          /\ Len(delete_results) = Len(all_preempted)
          /\ Len(check_results) = Len(all_tpus)
          /\ \A i \in 1..Len(delete_results) :
                DeleteResultOf(delete_results[i], all_preempted[i])
          /\ \A j \in 1..Len(check_results) :
                ProbeResultOf(check_results[j], all_tpus[j])

\* A pass with one delete task and one probe task has ended, each result in
\* its list.
C17_Witness ==
    /\ apc = "done"
    /\ Len(all_preempted) = 1 /\ Len(all_tpus) = 1
    /\ delete_results[1][2] = "llq-9" /\ delete_results[1][1] = "DELETE_FAIL"
    /\ check_results[1][2] = "llq-7" /\ check_results[1][4] = "BUSY"


\* The probe results as the dispatch returned them, before the reconciling.
Unmarked == SubSeq(all_results, Len(all_preempted) + 1, Len(all_results))

\* The lines of a summary that hold counts.
CountLines(lines) == SelectSeq(lines, LAMBDA l : l.kind \in {"delete", "group", "all"})

\* The leases left in the directory for the instance name: after the scan of
\* the pass these are the valid ones.
LeasesFor(name) == {f \in dir : SubSeq(f, 2, Len(f) - 2) = NameKey(name)}

\* C18: the reconciling against the registry changes only the message of the
\* results that are IDLE and whose instance has a valid lease, by appending
\* the holder; status, tag, name and zone of every result, the message of
\* every other result, the counts by tag and in all, and the delete results
\* are as they were.
C18_ReservationAdvisory ==
    apc = "done" =>
       /\ Len(check_results) = Len(Unmarked)
       /\ \A j \in 1..Len(check_results) :
             LET old == Unmarked[j]
                 new == check_results[j]
             IN  /\ \A k \in 1..4 : new[k] = old[k]
                 /\ new[5].users = old[5].users
                 /\ IF old[4] = "IDLE" /\ LeasesFor(old[2]) # {}
                    THEN \E f \in LeasesFor(old[2]) :
                            new[5].text = old[5].text \o <<" reserve (if idle): ", f[1]>>
                    ELSE new[5] = old[5]
       /\ delete_results = SubSeq(all_results, 1, Len(all_preempted))
       /\ CountLines(summary) = CountLines(SummaryLines(delete_results, Unmarked, PREFIXES))

\* A pass has ended with two idle instances, the first with a valid lease and
\* marked with its holder, the second without one and as the probe left it.
C18_Witness ==
    /\ apc = "done"
    /\ Len(check_results) = 2
    /\ check_results[1][2] = "llq-7" /\ check_results[1][4] = "IDLE"
    /\ check_results[1][5] # Unmarked[1][5]
    /\ sres = (NameKey("llq-7") :> "alice")
    /\ check_results[2][2] = "misc-3" /\ check_results[2][4] = "IDLE"
    /\ check_results[2][5] = Unmarked[2][5]


\* -------------------------------------------- lease directory: more properties

\* The places among the files the scan has iterated over that hold a valid
\* lease for the instance vm.
ValidSeen(vm) ==
    {i \in 1..sidx : \E user \in Users : ValidLeaseOf(sfiles[i], vm, user, snow)}

\* The instance names of the lease files the scan has iterated over.
NamesSeen ==
    {SubSeq(sfiles[i], 2, Len(sfiles[i]) - 2) : i \in {k \in 1..sidx : Len(sfiles[k]) >= 4}}

\* C19: for every instance name the holder a scan has recorded is the owner
\* of the first valid lease for that name among the files iterated over, which
\* no later lease overrides; it has one whenever there is a valid lease,
\* whatever expired leases for the name come before or after it; when the scan
\* has returned, the expired leases it saw are gone.
C19_HolderSelection ==
    /\ spc \in {"loop", "returned"} =>
          \A vm \in NamesSeen \cup DOMAIN sres :
             IF ValidSeen(vm) = {} THEN vm \notin DOMAIN sres
             ELSE /\ vm \in DOMAIN sres
                  /\ \E i \in ValidSeen(vm) :
                        /\ \A j \in ValidSeen(vm) : i <= j
                        /\ sres[vm] = sfiles[i][1]
    /\ spc = "returned" => \A f \in Range(sfiles) : ExpiredAt(f, snow) => f \notin dir

\* A scan at 00-40-00 has iterated over alice's lease of 00-00-00 and then
\* over bob's of 00-30-00 for the same instance: bob is the holder and alice's
\* lease is gone.
C19_Witness ==
    /\ spc = "returned"
    /\ snow = <<"2026-01-01", "00-40-00">>
    /\ sfiles = << <<"alice", "llq-7", "2026-01-01", "00-00-00">>,
                   <<"bob", "llq-7", "2026-01-01", "00-30-00">> >>
    /\ sres = (<<"llq-7">> :> "bob")
    /\ dir = {<<"bob", "llq-7", "2026-01-01", "00-30-00">>}


\* ---------------------------------------- wrap_master.py: the time of an entry

\* C20: the cache entry a refresh writes holds the captured output of the pass
\* it ran and a time that is not earlier than the instant at which that pass
\* finished.
C20_EntryHoldsCompletionTime ==
    [][\A p \in Procs :
          /\ (wpc[p] = "running" /\ wpc'[p] = "write") => wnow'[p] >= clock
          /\ (wpc[p] = "write" /\ wpc'[p] = "writing") =>
                wpending'[p] = CacheText(wnow[p], woutput[p])]_vars


\* ------------------------------------------------ wrap_master.py: the lock

\* An invocation that has exited holds no lock.
ReleasedOnExit == \A p \in Procs : wpc[p] = "done" => lockHolder # p

\* C21: a refresh invocation that has exited, by whatever path (pass with
\* status zero or not, failed cache write, interrupt), holds the lock no
\* longer; so, every pass ending, every refresh invocation blocked on the lock
\* acquires it and starts its pass, unless it is interrupted itself while it
\* waits.
C21_ReleaseAndProgress ==
    /\ []ReleasedOnExit
    /\ \A p \in Procs :
          (wpc[p] = "blocked") ~> (ranPass[p] \/ (wpc[p] = "finally" /\ wexit[p] = 130))

\* An invocation that was blocked behind a holder has run its pass after the
\* holder left through an interrupt.
C21_Witness ==
    \E p, q \in Procs :
        /\ wpc[p] = "done" /\ wexit[p] = 130 /\ ranPass[p]
        /\ blockedOn[q] = p /\ ranPass[q] /\ lockHolder = q


\* --------------------------------------------- audit pass: preempted records

\* C22: for every instance name and zone the task batch of the pass holds as
\* many delete tasks as the zone listed records of that name in state
\* PREEMPTED, whatever the name, the singly excluded name and the dev machines
\* included; every delete task carries the state PREEMPTED, so a record in
\* another state has none; a pass that ends without tasks listed no preempted
\* record.
C22_PreemptedBecomesDelete ==
    /\ apc = "tasks" =>
          /\ \A z \in Zones, n \in ListedNames :
                DeleteCount(all_tasks, n, z) = PreemptedCount(n, z)
          /\ \A i \in 1..Len(all_tasks) :
                ~IsProbe(all_tasks[i]) =>
                   /\ all_tasks[i].state = "PREEMPTED"
                   /\ all_tasks[i].name \in ListedNames
          /\ Len(all_preempted) = Cardinality({i \in 1..Len(all_tasks) : ~IsProbe(all_tasks[i])})
    /\ apc = "nothing" =>
          \A z \in Zones, n \in ListedNames : PreemptedCount(n, z) = 0

\* A zone listed kmh-tpuvm-v4-8-4 once READY and once PREEMPTED: the batch is
\* the one delete task for it.
C22_Witness ==
    /\ apc = "tasks"
    /\ Len(all_tasks) = 1
    /\ \E z \in Zones :
          /\ PreemptedCount("kmh-tpuvm-v4-8-4", z) = 1
          /\ DeleteCount(all_tasks, "kmh-tpuvm-v4-8-4", z) = 1
          /\ \E k \in 1..Len(LinesOf(z)) :
                /\ IsRecord(LinesOf(z)[k])
                /\ RecName(LinesOf(z)[k]) = "kmh-tpuvm-v4-8-4"
                /\ RecState(LinesOf(z)[k]) = "READY"

\* ------------------------------------- lease directory: what a scan removes

\* The lease file has four parts or more and a creation time that is no time.
InvalidStamp(file) == Len(file) >= 4 /\ Unparsable(file)

\* The lease parses and is older than LOCK_EXPIRE_SECONDS at instant t.
AgedAt(file, t) ==
    /\ ~Unparsable(file)
    /\ t - SecondsOf(file[Len(file) - 1], file[Len(file)]) > LOCK_EXPIRE_SECONDS

\* C23: no scan of the lease directory removes a lease whose name parses and
\* whose age is at most LOCK_EXPIRE_SECONDS at the time of the scan: the
\* directory loses only files whose lease is expired or whose creation time
\* does not parse, and every other file stays; the step of a scan of
\* collect_recent_reservations removes at most the file it is at, and only
\* if that lease is expired at the scan's own time or has no readable time,
\* whatever other scans have removed meanwhile.
C23_ScanKeepsLiveLeases ==
    [][dir' # dir =>
          /\ \A f \in dir \ dir' : InvalidStamp(f) \/ AgedAt(f, clock)
          /\ \A f \in dir : (~Unparsable(f) /\ ~AgedAt(f, clock)) => f \in dir'
          /\ (spc = "loop" /\ sidx' = sidx + 1) =>
                 \A f \in dir \ dir' :
                     f = sfiles[sidx'] /\ (InvalidStamp(f) \/ ExpiredAt(f, snow))]_vars

\* Two scans have run and the later has returned: an expired lease it listed
\* is gone and a lease it listed that is not expired is still in the
\* directory.
C23_Witness ==
    /\ spc = "returned"
    /\ scans = 2
    /\ \E f \in Range(sfiles) : ExpiredAt(f, snow) /\ f \notin dir
    /\ \E f \in Range(sfiles) :
          ~Unparsable(f) /\ ~AgedAt(f, clock) /\ f \in dir

==============================================================================
